---- MODULE Spec2Model ----
(***************************************************************************)
(* Spreadsheet lead import of the admin console (JobsList.tsx,             *)
(* LeadsIntegrations) together with the lead store it writes to            *)
(* (crm-leads.php).  Strings are sequences of one-character strings so     *)
(* that parsing, trimming, case folding and prefix stripping are computed  *)
(* character by character as the code does.                                *)
(***************************************************************************)
EXTENDS Integers, Sequences, FiniteSets, TLC

(***************************************************************************)
(* Bounds of the model.                                                    *)
(***************************************************************************)
\* longest phone string fed to cleanPhoneNumber on its own
MaxPhoneLen == 4
\* most data rows of a generated CSV text
MaxDataRows == 3
\* longest line given to the tokenizer
MaxLineLen == 5

(***************************************************************************)
(* JavaScript string primitives.                                           *)
(***************************************************************************)
\* characters matched by \s and removed by String.prototype.trim
IsSpace(c) == c \in {" ", "\t", "\r", "\n"}

RECURSIVE TrimStart(_)
TrimStart(s) ==
  IF s = <<>> THEN <<>>
  ELSE IF IsSpace(Head(s)) THEN TrimStart(Tail(s)) ELSE s

RECURSIVE TrimEnd(_)
TrimEnd(s) ==
  IF s = <<>> THEN <<>>
  ELSE IF IsSpace(s[Len(s)]) THEN TrimEnd(SubSeq(s, 1, Len(s) - 1)) ELSE s

Trim(s) == TrimEnd(TrimStart(s))

Lower(c) ==
  CASE c = "A" -> "a"
    [] c = "B" -> "b"
    [] c = "C" -> "c"
    [] c = "D" -> "d"
    [] c = "E" -> "e"
    [] c = "F" -> "f"
    [] c = "G" -> "g"
    [] c = "H" -> "h"
    [] c = "I" -> "i"
    [] c = "J" -> "j"
    [] c = "K" -> "k"
    [] c = "L" -> "l"
    [] c = "M" -> "m"
    [] c = "N" -> "n"
    [] c = "O" -> "o"
    [] c = "P" -> "p"
    [] c = "Q" -> "q"
    [] c = "R" -> "r"
    [] c = "S" -> "s"
    [] c = "T" -> "t"
    [] c = "U" -> "u"
    [] c = "V" -> "v"
    [] c = "W" -> "w"
    [] c = "X" -> "x"
    [] c = "Y" -> "y"
    [] c = "Z" -> "z"
    [] OTHER -> c

toLowerCase(s) == [i \in 1..Len(s) |-> Lower(s[i])]

\* s.replace(/"/g, '')
StripQuotes(s) == SelectSeq(s, LAMBDA c : c # "\"")

\* text.split('\n')
RECURSIVE SplitFrom(_, _, _, _)
SplitFrom(text, i, cur, acc) ==
  IF i > Len(text) THEN Append(acc, cur)
  ELSE IF text[i] = "\n" THEN SplitFrom(text, i + 1, <<>>, Append(acc, cur))
  ELSE SplitFrom(text, i + 1, Append(cur, text[i]), acc)

SplitLines(text) == SplitFrom(text, 1, <<>>, <<>>)

\* csvText.split('\n').filter(line => line.trim())
NonBlankLines(text) == SelectSeq(SplitLines(text), LAMBDA l : Trim(l) # <<>>)

\* the tokenizer with every comma taken as a separator, quoted or not
RECURSIVE ParseLineFromAnyComma(_, _, _, _, _)
ParseLineFromAnyComma(line, i, result, current, inQuotes) ==
  IF i > Len(line) THEN Append(result, Trim(current))
  ELSE IF line[i] = "\"" THEN ParseLineFromAnyComma(line, i + 1, result, current, ~inQuotes)
  ELSE IF line[i] = ","
       THEN ParseLineFromAnyComma(line, i + 1, Append(result, Trim(current)), <<>>, inQuotes)
  ELSE ParseLineFromAnyComma(line, i + 1, result, Append(current, line[i]), inQuotes)

(***************************************************************************)
(* parseCSVLine: a quote toggles inQuotes, a comma outside quotes ends the *)
(* field, every field is trimmed when pushed.                              *)
(***************************************************************************)
RECURSIVE ParseLineFrom(_, _, _, _, _)
ParseLineFrom(line, i, result, current, inQuotes) ==
  IF i > Len(line) THEN Append(result, Trim(current))
  ELSE IF line[i] = "\"" THEN ParseLineFrom(line, i + 1, result, current, ~inQuotes)
  ELSE IF line[i] = "," /\ ~inQuotes
       THEN ParseLineFrom(line, i + 1, Append(result, Trim(current)), <<>>, inQuotes)
  ELSE ParseLineFrom(line, i + 1, result, Append(current, line[i]), inQuotes)

parseCSVLine(line) == ParseLineFrom(line, 1, <<>>, <<>>, FALSE)

(***************************************************************************)
(* cleanPhoneNumber: phone.replace(/^(p\s*:?\s*\+?|\+?)/i, '').trim()      *)
(***************************************************************************)
RECURSIVE SkipSpaces(_, _)
\* index of the first character at or after i that \s* does not consume
SkipSpaces(s, i) ==
  IF i <= Len(s) /\ IsSpace(s[i]) THEN SkipSpaces(s, i + 1) ELSE i

\* one optional character c at position i
SkipOpt(s, i, c) == IF i <= Len(s) /\ s[i] = c THEN i + 1 ELSE i

\* the prefix pattern without the optional "+" after "p:" : ^(p\s*:?\s*|\+?)
PrefixMatchLenNoPlus(s) ==
  IF s # <<>> /\ Lower(s[1]) = "p"
  THEN SkipSpaces(s, SkipOpt(s, SkipSpaces(s, 2), ":")) - 1
  ELSE SkipOpt(s, 1, "+") - 1

\* number of characters matched by ^(p\s*:?\s*\+?|\+?) with the i flag
PrefixMatchLen(s) ==
  IF s # <<>> /\ Lower(s[1]) = "p"
  THEN SkipOpt(s, SkipSpaces(s, SkipOpt(s, SkipSpaces(s, 2), ":")), "+") - 1
  ELSE SkipOpt(s, 1, "+") - 1

StripPhonePrefix(s) == SubSeq(s, PrefixMatchLen(s) + 1, Len(s))

cleanPhoneNumber(phone) ==
  IF phone = <<>> THEN <<>> ELSE Trim(StripPhonePrefix(phone))

(***************************************************************************)
(* parseCSV: header mapping, required fields, intra-batch deduplication.   *)
(***************************************************************************)
NameHeaders ==
  { <<"n", "a", "m", "e">>,
    <<"f", "u", "l", "l", " ", "n", "a", "m", "e">>,
    <<"c", "o", "n", "t", "a", "c", "t", " ", "n", "a", "m", "e">>,
    <<"c", "u", "s", "t", "o", "m", "e", "r", " ", "n", "a", "m", "e">> }

EmailHeaders ==
  { <<"e", "m", "a", "i", "l">>,
    <<"e", "m", "a", "i", "l", " ", "a", "d", "d", "r", "e", "s", "s">>,
    <<"c", "u", "s", "t", "o", "m", "e", "r", " ", "e", "m", "a", "i", "l">> }

PhoneHeaders ==
  { <<"p", "h", "o", "n", "e">>,
    <<"p", "h", "o", "n", "e", " ", "n", "u", "m", "b", "e", "r">>,
    <<"m", "o", "b", "i", "l", "e">>,
    <<"c", "o", "n", "t", "a", "c", "t", " ", "n", "u", "m", "b", "e", "r">> }

CountryHeaders ==
  { <<"c", "o", "u", "n", "t", "r", "y">>,
    <<"l", "o", "c", "a", "t", "i", "o", "n">>,
    <<"c", "u", "s", "t", "o", "m", "e", "r", " ", "c", "o", "u", "n", "t", "r", "y">> }

MessageHeaders ==
  { <<"m", "e", "s", "s", "a", "g", "e">>,
    <<"c", "o", "m", "m", "e", "n", "t", "s">>,
    <<"n", "o", "t", "e", "s">>,
    <<"d", "e", "s", "c", "r", "i", "p", "t", "i", "o", "n">> }

SourceHeaders ==
  { <<"s", "o", "u", "r", "c", "e">>,
    <<"s", "o", "u", "r", "c", "e", " ", "p", "a", "g", "e">>,
    <<"p", "a", "g", "e">>,
    <<"r", "e", "f", "e", "r", "r", "a", "l", " ", "s", "o", "u", "r", "c", "e">> }

PlanHeaders ==
  { <<"p", "l", "a", "n">>,
    <<"s", "e", "l", "e", "c", "t", "e", "d", " ", "p", "l", "a", "n">>,
    <<"s", "e", "r", "v", "i", "c", "e">>,
    <<"p", "r", "o", "d", "u", "c", "t">> }

EmptyRow ==
  [name |-> <<>>, email |-> <<>>, phone |-> <<>>, country |-> <<>>,
   message |-> <<>>, sourcePage |-> <<>>, selectedPlan |-> <<>>]

\* the switch (header) of the forEach callback, for one column
SetField(row, header, value) ==
  IF header \in NameHeaders THEN [row EXCEPT !.name = value]
  ELSE IF header \in EmailHeaders THEN [row EXCEPT !.email = toLowerCase(value)]
  ELSE IF header \in PhoneHeaders THEN [row EXCEPT !.phone = cleanPhoneNumber(value)]
  ELSE IF header \in CountryHeaders THEN [row EXCEPT !.country = value]
  ELSE IF header \in MessageHeaders THEN [row EXCEPT !.message = value]
  ELSE IF header \in SourceHeaders THEN [row EXCEPT !.sourcePage = value]
  ELSE IF header \in PlanHeaders THEN [row EXCEPT !.selectedPlan = value]
  ELSE row

\* headers.forEach((header, index) => ...), values[index] || ''
RECURSIVE MapColumns(_, _, _, _)
MapColumns(headers, values, index, row) ==
  IF index > Len(headers) THEN row
  ELSE MapColumns(headers, values, index + 1,
         SetField(row, headers[index],
                  IF index <= Len(values) THEN values[index] ELSE <<>>))

HeaderCells(line) ==
  LET cells == parseCSVLine(line)
  IN [k \in 1..Len(cells) |-> StripQuotes(toLowerCase(Trim(cells[k])))]

ValueCells(line) ==
  LET cells == parseCSVLine(line)
  IN [k \in 1..Len(cells) |-> StripQuotes(Trim(cells[k]))]

BuildRow(headers, line) == MapColumns(headers, ValueCells(line), 1, EmptyRow)

\* if (!row.name || !row.email) continue
HasRequired(row) == row.name # <<>> /\ row.email # <<>>

\* the "already seen" tests with the email test left out
NotSeenPhoneOnly(row, seenPhones, seenEmails) ==
  ~(row.phone # <<>> /\ row.phone \in seenPhones)

\* the two "already seen" tests that follow the required-field test
NotSeen(row, seenPhones, seenEmails) ==
  /\ ~(row.phone # <<>> /\ row.phone \in seenPhones)
  /\ row.email \notin seenEmails

\* the row loop with the email recorded as seen before the skip tests
RECURSIVE ParseRowsMarkFirst(_, _, _, _, _, _)
ParseRowsMarkFirst(lines, i, headers, rows, seenPhones, seenEmails) ==
  IF i > Len(lines) THEN rows
  ELSE LET row == BuildRow(headers, lines[i])
       IN IF HasRequired(row) /\ NotSeen(row, seenPhones, seenEmails)
          THEN ParseRowsMarkFirst(lines, i + 1, headers, Append(rows, row),
                         IF row.phone # <<>> THEN seenPhones \cup {row.phone}
                                             ELSE seenPhones,
                         seenEmails \cup {row.email})
          ELSE ParseRowsMarkFirst(lines, i + 1, headers, rows, seenPhones,
                         IF HasRequired(row) THEN seenEmails \cup {row.email}
                                             ELSE seenEmails)

\* the row loop with the phone and email of a row that lacks a name or an
\* email recorded as seen
RECURSIVE ParseRowsMarkIncomplete(_, _, _, _, _, _)
ParseRowsMarkIncomplete(lines, i, headers, rows, seenPhones, seenEmails) ==
  IF i > Len(lines) THEN rows
  ELSE LET row == BuildRow(headers, lines[i])
           phones == IF row.phone # <<>> THEN seenPhones \cup {row.phone}
                                         ELSE seenPhones
           emails == IF row.email # <<>> THEN seenEmails \cup {row.email}
                                         ELSE seenEmails
       IN IF HasRequired(row) /\ NotSeen(row, seenPhones, seenEmails)
          THEN ParseRowsMarkIncomplete(lines, i + 1, headers, Append(rows, row),
                                       phones, emails)
          ELSE IF ~HasRequired(row)
          THEN ParseRowsMarkIncomplete(lines, i + 1, headers, rows, phones, emails)
          ELSE ParseRowsMarkIncomplete(lines, i + 1, headers, rows, seenPhones,
                                       seenEmails)

RECURSIVE ParseRows(_, _, _, _, _, _)
ParseRows(lines, i, headers, rows, seenPhones, seenEmails) ==
  IF i > Len(lines) THEN rows
  ELSE LET row == BuildRow(headers, lines[i])
       IN IF HasRequired(row) /\ NotSeen(row, seenPhones, seenEmails)
          THEN ParseRows(lines, i + 1, headers, Append(rows, row),
                         IF row.phone # <<>> THEN seenPhones \cup {row.phone}
                                             ELSE seenPhones,
                         seenEmails \cup {row.email})
          ELSE ParseRows(lines, i + 1, headers, rows, seenPhones, seenEmails)

parseCSV(csvText) ==
  LET lines == NonBlankLines(csvText)
  IN IF Len(lines) = 0 THEN <<>>
     ELSE ParseRows(lines, 2, HeaderCells(lines[1]), <<>>, {}, {})

(***************************************************************************)
(* State.                                                                  *)
(***************************************************************************)
VARIABLES
  fnPc,          \* "ready" before a pure function is applied, "done" after
  phoneArg,      \* argument of cleanPhoneNumber
  phoneRes,      \* its result
  csvArg,        \* argument of parseCSV
  csvRes,        \* its result
  lineArg,       \* argument of parseCSVLine
  lineRes,       \* its result
  store,         \* the leads table: a sequence of rows in insertion order
  sheetText,     \* the CSV text each spreadsheet's export URL serves
  spreadsheets,  \* React state: the spreadsheet configurations
  serverSheets,  \* the spreadsheet configurations as persisted by the API
  importing,     \* React state: the importing flag
  importResults, \* React state: the last import result, or NoResult
  syncHistory,   \* React state: the bounded list of results, newest first
  runs,          \* the invocations of processSpreadsheet / sync-all
  runCount,      \* number of invocations started so far
  clock,         \* what new Date() reads: advances with every result built
  faults,        \* number of environment faults injected so far
  mounted,       \* the integrations page is mounted
  loadPc,        \* loadSpreadsheets: "pending" until its response, then "done"
  syncIntervals, \* React state: the timer handle held per spreadsheet id
  timers,        \* every interval created by setInterval, live or cleared
  edits,         \* calls of handleEditSpreadsheet awaiting their response
  applied,       \* per spreadsheet id, what the last applied edit set
  editCount,     \* number of edits issued so far
  tickCount,     \* number of timer ticks fired so far
  leadsTable,    \* the leads table as the PHP statements see it: id, lead_id
  autoIncrement, \* the next value of the table's AUTO_INCREMENT id
  requests       \* create-lead requests: between generateLeadId and INSERT

dbVars == <<leadsTable, autoIncrement, requests>>

fnVars == <<fnPc, phoneArg, phoneRes, csvArg, csvRes, lineArg, lineRes>>

syncVars ==
  <<store, sheetText, spreadsheets, serverSheets, importing, importResults,
    syncHistory, runs, runCount, clock, faults>>

timerVars ==
  <<mounted, loadPc, syncIntervals, timers, edits, applied, editCount, tickCount>>

vars ==
  <<fnPc, phoneArg, phoneRes, csvArg, csvRes, lineArg, lineRes, store, sheetText, spreadsheets,
    serverSheets, importing, importResults, syncHistory, runs, runCount, clock,
    faults, mounted, loadPc, syncIntervals, timers, edits, applied, editCount,
    leadsTable, autoIncrement, requests,
    tickCount>>

\* most invocations of a sync in one behaviour
MaxRuns == 2
\* most failures the environment injects in one behaviour (failed fetches,
\* failed list reads, failed or rejected creation calls, failed updates)
MaxFaults == 2
\* most invocations that may be in flight at the same time
MaxInFlight == 2
\* create-lead requests served at the same time
MaxClients == 2
\* create-lead requests in all
MaxCreates == 3

\* str_pad($nextId, 4, '0', STR_PAD_LEFT)
LeadIdWidth == 4

\* errors.slice(0, 10)
ErrorsShown == 10
\* [result, ...prev.slice(0, 9)]
HistoryKept == 9

Null == "null"

SheetIds == {1, 2}

Slots == 1..MaxInFlight

Clients == 1..MaxClients

NoRequest == [pc |-> "idle", leadId |-> <<>>]
(***************************************************************************)
(* Inputs of the pure functions.                                           *)
(***************************************************************************)
PhoneAlphabet == {"p", "P", ":", "+", " ", "1", "2"}

Digits == {"0", "1", "2", "3", "4", "5", "6", "7", "8", "9"}

StringsUpTo(alphabet, n) == UNION {[1..k -> alphabet] : k \in 0..n}

\* cells a generated data row is built from
NameCells == {<<"n">>}
EmailCells == {<<"a">>, <<"A">>, <<"b">>}
PhoneCells == {<<>>, <<"1">>, <<"+", "1">>, <<"2">>}

\* data rows that lack a name or an email
IncompleteCells ==
  { <<<<>>, <<"a">>, <<"1">>>>,
    <<<<"n">>, <<>>, <<"1">>>>,
    <<<<>>, <<"b">>, <<>>>> }

HeaderLine == <<"n", "a", "m", "e", ",", "E", "m", "a", "i", "l", ",", "p", "h", "o", "n", "e">>

DataLine(cells) == cells[1] \o <<",">> \o cells[2] \o <<",">> \o cells[3]

RECURSIVE JoinLines(_)
JoinLines(ls) ==
  IF ls = <<>> THEN <<>>
  ELSE IF Len(ls) = 1 THEN ls[1]
  ELSE ls[1] \o <<"\n">> \o JoinLines(Tail(ls))

DataLines ==
  {DataLine(c) : c \in (NameCells \X EmailCells \X PhoneCells) \cup IncompleteCells}

CsvTexts ==
  {JoinLines(<<HeaderLine>> \o ls) : ls \in UNION {[1..k -> DataLines] : k \in 0..MaxDataRows}}

\* the rows of a text as the loop builds them, before any is skipped
BuiltRows(csvText) ==
  LET lines == NonBlankLines(csvText)
  IN IF Len(lines) = 0 THEN <<>>
     ELSE [k \in 1..(Len(lines) - 1) |-> BuildRow(HeaderCells(lines[1]), lines[k + 1])]

(***************************************************************************)
(* The lead store (crm-leads.php) and the client's calls to it.            *)
(***************************************************************************)
\* PHP empty(): the empty string and "0" are both empty
PhpEmpty(s) == s = <<>> \/ s = <<"0">>

\* createLead: validation, INSERT, and the PDOException branch (dbOk false);
\* both failures answer success = false with HTTP status 200
createLead(table, input, dbOk) ==
  IF PhpEmpty(input.full_name) \/ PhpEmpty(input.mobile_number)
  THEN [table |-> table, success |-> FALSE,
        message |-> "Full name and mobile number are required"]
  ELSE IF dbOk
  THEN [table |-> Append(table, [id |-> Len(table) + 1, email |-> input.email,
                                 phone |-> input.mobile_number]),
        success |-> TRUE, message |-> "Lead created successfully"]
  ELSE [table |-> table, success |-> FALSE, message |-> "Failed to create lead"]

\* getLeads: the formatted rows, or an empty list with success = true when
\* the query throws
getLeads(table, dbOk) ==
  IF dbOk
  THEN [success |-> TRUE,
        data |-> [k \in 1..Len(table) |-> [email |-> table[k].email,
                                           phone |-> table[k].phone]]]
  ELSE [success |-> TRUE, data |-> <<>>]

\* what a request to crm-leads.php can meet
CreateEnvs ==
  {"served", "dbfail", "noconn", "http_duplicate", "http_exists", "http_other"}
ListEnvs == {"served", "dbfail", "unauthorized", "network"}
FetchEnvs == {"ok", "http_error", "network"}
UpdateEnvs == {"ok", "failed"}

\* message of a non-OK response to the creation call
HttpMessage(env) ==
  CASE env = "http_duplicate" -> "Duplicate entry for key email"
    [] env = "http_exists" -> "Lead already exists"
    [] OTHER -> "Unauthorized"

\* message.toLowerCase().includes(needle)
Includes(message, needle) ==
  \/ message = "Duplicate entry for key email" /\ needle = "duplicate"
  \/ message = "Lead already exists" /\ needle = "already exists"

\* api.leads.create: the request body, then a throw on a non-OK response and
\* the parsed body otherwise; without a database connection the script
\* answers success = true before it reaches createLead
ApiLeadsCreate(table, lead, env) ==
  LET input == [full_name |-> lead.name, email |-> lead.email,
                mobile_number |-> lead.phone]
  IN IF env \in {"served", "dbfail"}
     THEN LET r == createLead(table, input, env = "served")
          IN [table |-> r.table, thrown |-> FALSE, success |-> r.success,
              message |-> r.message]
     ELSE IF env = "noconn"
     THEN [table |-> table, thrown |-> FALSE, success |-> TRUE,
           message |-> "No leads available"]
     ELSE [table |-> table, thrown |-> TRUE, success |-> FALSE,
           message |-> HttpMessage(env)]

\* existingLeadsData.success ? existingLeadsData.data : []
ExistingLeads(table, env) ==
  IF env = "unauthorized" THEN <<>> ELSE getLeads(table, env = "served").data

\* lead.email?.toLowerCase(), filter(Boolean)
EmailSet(leads) ==
  {toLowerCase(leads[k].email) : k \in {j \in 1..Len(leads) : leads[j].email # <<>>}}

\* (lead.phone || lead.mobile_number) with the prefix pattern removed, trimmed
PhoneSet(leads) ==
  {Trim(StripPhonePrefix(leads[k].phone)) :
     k \in {j \in 1..Len(leads) : leads[j].phone # <<>>}} \ {<<>>}

\* extractSpreadsheetId: URLs are abstracted to what the matchers make of them
extractSpreadsheetId(url) == IF url = "sheet" THEN "id" ELSE Null

convertToCsvUrl(url) ==
  IF url = "csv" THEN url
  ELSE IF extractSpreadsheetId(url) = Null THEN Null
  ELSE "export"
(***************************************************************************)
(* One invocation of processSpreadsheet or handleProcessAllSpreadsheets:   *)
(* its local variables, its position, and a record of what it did.         *)
(***************************************************************************)
IdleRun ==
  [kind |-> "none", pc |-> "idle", sheet |-> 0, queue |-> <<>>,
   rows |-> <<>>, i |-> 0,
   successCount |-> 0, failedCount |-> 0, duplicateCount |-> 0,
   errors |-> <<>>, existingEmails |-> {}, existingPhones |-> {},
   totalSuccess |-> 0, totalFailed |-> 0, totalDuplicates |-> 0,
   status |-> "none",
   \* record of the invocation
   toasts |-> {}, calls |-> <<>>, classes |-> <<>>, parsed |-> <<>>,
   listed |-> "none", fetches |-> <<>>, order |-> <<>>,
   storeAtStart |-> <<>>, storeAtList |-> <<>>, updates |-> <<>>]

\* useState<SpreadsheetImportResult | null>(null)
NoResult ==
  [spreadsheetId |-> 0, success |-> 0, failed |-> 0, duplicates |-> 0,
   errors |-> <<>>, timestamp |-> 0, status |-> "null"]

FreshRun(kind, table) == [IdleRun EXCEPT !.kind = kind, !.storeAtStart = table]

Fetched(run, sheet, env) ==
  [run EXCEPT !.fetches = Append(@, [sheet |-> sheet, env |-> env])]

\* the record of a call of api.spreadsheets.update with last_synced
Updated(run, env) ==
  [run EXCEPT !.updates = Append(@, [sheet |-> run.sheet, env |-> env])]

Toast(run, type, sheet) ==
  [run EXCEPT !.toasts = @ \cup {[type |-> type, sheet |-> sheet]}]

\* no invocation is between its start and its end
NoneInFlight == \A r \in Slots : runs[r].pc \in {"idle", "done"}

\* a new invocation takes the lowest slot that is not in flight
FreeSlot(r) ==
  /\ runs[r].pc \in {"idle", "done"}
  /\ \A q \in Slots : q < r => runs[q].pc \notin {"idle", "done"}

\* an environment fault may still be injected
MayFail == faults < MaxFaults

Cost(env) == IF env \in {"served", "ok"} THEN 0 ELSE 1

\* the status chain with the error test first and without its "s = 0"
RunStatusErrorFirst(s, d, f) ==
  IF s = 0 /\ d > 0 /\ f = 0 THEN "all_duplicates"
  ELSE IF f > 0 THEN "error"
  ELSE IF s > 0 /\ (d > 0 \/ f > 0) THEN "partial"
  ELSE "success"

\* the status chain with ">=" for ">" in the partial test
RunStatusPartialGe(s, d, f) ==
  IF s = 0 /\ d > 0 /\ f = 0 THEN "all_duplicates"
  ELSE IF s > 0 /\ (d >= 0 \/ f > 0) THEN "partial"
  ELSE IF f > 0 /\ s = 0 THEN "error"
  ELSE "success"

\* the classification with "error" kept for runs without duplicates
RunStatusErrorNeedsNoDup(s, d, f) ==
  IF s = 0 /\ d > 0 /\ f = 0 THEN "all_duplicates"
  ELSE IF s > 0 /\ (d > 0 \/ f > 0) THEN "partial"
  ELSE IF f > 0 /\ s = 0 /\ d = 0 THEN "error"
  ELSE "success"

\* the status chain of processSpreadsheet
RunStatus(s, d, f) ==
  IF s = 0 /\ d > 0 /\ f = 0 THEN "all_duplicates"
  ELSE IF s > 0 /\ (d > 0 \/ f > 0) THEN "partial"
  ELSE IF f > 0 /\ s = 0 THEN "error"
  ELSE "success"

FirstN(seq, n) == SubSeq(seq, 1, IF Len(seq) < n THEN Len(seq) ELSE n)

\* row.email.toLowerCase()
CleanEmail(row) == toLowerCase(row.email)

\* row.phone ? row.phone.replace(<prefix pattern>, '').trim() : ''
CleanPhone2(row) ==
  IF row.phone # <<>> THEN Trim(StripPhonePrefix(row.phone)) ELSE <<>>

\* a classification that pushes the error line of a failed row but does not
\* count it
ClassifiedFailedUncounted(run, class, detail) ==
  LET counted ==
        CASE class = "success" -> [run EXCEPT !.successCount = @ + 1]
          [] class = "duplicate" ->
               [run EXCEPT !.duplicateCount = @ + 1,
                           !.errors = Append(@, [row |-> run.i, text |-> detail])]
          [] OTHER ->
               [run EXCEPT !.errors = Append(@, [row |-> run.i, text |-> detail])]
  IN [counted EXCEPT
        !.classes = Append(@, [sheet |-> run.sheet, row |-> run.i,
                               email |-> CleanEmail(run.rows[run.i]),
                               class |-> class]),
        !.i = @ + 1]

\* one classification: the counter, the error line, and the record of it
Classified(run, class, detail) ==
  LET counted ==
        CASE class = "success" -> [run EXCEPT !.successCount = @ + 1]
          [] class = "duplicate" ->
               [run EXCEPT !.duplicateCount = @ + 1,
                           !.errors = Append(@, [row |-> run.i, text |-> detail])]
          [] OTHER ->
               [run EXCEPT !.failedCount = @ + 1,
                           !.errors = Append(@, [row |-> run.i, text |-> detail])]
  IN [counted EXCEPT
        !.classes = Append(@, [sheet |-> run.sheet, row |-> run.i,
                               email |-> CleanEmail(run.rows[run.i]),
                               class |-> class]),
        !.i = @ + 1]

\* pre-checks that look the row up in the store as it is now, not only in
\* the sets the run built
PreCheckAgainstStore(run) ==
  LET row == run.rows[run.i]
      emails == run.existingEmails \cup EmailSet(store)
      phones == run.existingPhones \cup PhoneSet(store)
  IN IF ~(row.name # <<>> /\ row.email # <<>>) THEN "missing"
     ELSE IF CleanEmail(row) \in emails THEN "email_exists"
     ELSE IF CleanPhone2(row) # <<>> /\ CleanPhone2(row) \in phones
          THEN "phone_exists"
     ELSE "create"

\* the two pre-checks against the existing sets; "create" when both pass
PreCheck(run) ==
  LET row == run.rows[run.i]
  IN IF ~(row.name # <<>> /\ row.email # <<>>) THEN "missing"
     ELSE IF CleanEmail(row) \in run.existingEmails THEN "email_exists"
     ELSE IF CleanPhone2(row) # <<>> /\ CleanPhone2(row) \in run.existingPhones
          THEN "phone_exists"
     ELSE "create"

\* a row settled by the pre-checks, without a creation call
Skipped(run) ==
  CASE PreCheck(run) = "missing" ->
         Classified(run, "failed", "Missing name or email")
    [] PreCheck(run) = "email_exists" ->
         Classified(run, "duplicate", "Email already exists")
    [] OTHER ->
         Classified(run, "duplicate", "Phone already exists")

AddToSets(run) ==
  LET row == run.rows[run.i]
  IN [run EXCEPT
        !.existingEmails = @ \cup {CleanEmail(row)},
        !.existingPhones =
           IF CleanPhone2(row) # <<>> THEN @ \cup {CleanPhone2(row)} ELSE @]

Called(run, env, resp) ==
  [run EXCEPT
     !.calls = Append(@, [sheet |-> run.sheet, row |-> run.i,
                          email |-> CleanEmail(run.rows[run.i]),
                          phone |-> CleanPhone2(run.rows[run.i]),
                          env |-> env, thrown |-> resp.thrown,
                          success |-> resp.success])]

\* processSpreadsheet, lines 914-941: what follows the creation call
AfterCreateSingle(run, resp) ==
  IF ~resp.thrown
  THEN Classified(AddToSets(run), "success", "")
  ELSE IF Includes(resp.message, "duplicate") \/ Includes(resp.message, "already exists")
  THEN Classified(run, "duplicate", resp.message)
  ELSE Classified(run, "failed", resp.message)

\* what follows the creation call in sync-all, with the additions to the
\* shared sets left out
AfterCreateAllNoAdd(run, resp) ==
  IF ~resp.thrown
  THEN IF resp.success
       THEN Classified(run, "success", "")
       ELSE Classified(run, "failed", resp.message)
  ELSE IF Includes(resp.message, "duplicate")
  THEN Classified(run, "duplicate", resp.message)
  ELSE Classified(run, "failed", resp.message)

\* handleProcessAllSpreadsheets, lines 1089-1120
AfterCreateAll(run, resp) ==
  IF ~resp.thrown
  THEN IF resp.success
       THEN Classified(AddToSets(run), "success", "")
       ELSE Classified(run, "failed", resp.message)
  ELSE IF Includes(resp.message, "duplicate")
  THEN Classified(run, "duplicate", resp.message)
  ELSE Classified(run, "failed", resp.message)

\* the result object of a run that reached the end of its rows
ResultOf(run) ==
  [spreadsheetId |-> run.sheet, success |-> run.successCount,
   failed |-> run.failedCount, duplicates |-> run.duplicateCount,
   errors |-> FirstN(run.errors, ErrorsShown), timestamp |-> clock,
   status |-> RunStatus(run.successCount, run.duplicateCount, run.failedCount)]

\* the catch block's result without the "No data" distinction
ErrorResultAlwaysError(run, message) ==
  [spreadsheetId |-> run.sheet, success |-> 0, failed |-> 0, duplicates |-> 0,
   errors |-> <<[row |-> 0, text |-> message]>>, timestamp |-> clock,
   status |-> "error"]

\* the result object built in the catch block
ErrorResultOf(run, message) ==
  [spreadsheetId |-> run.sheet, success |-> 0, failed |-> 0, duplicates |-> 0,
   errors |-> <<[row |-> 0, text |-> message]>>, timestamp |-> clock,
   status |-> IF message = "No data found in spreadsheet" THEN "no_data" ELSE "error"]

\* the toasts after the row loop (both procedures)
OutcomeToasts(run) ==
  LET s == run.successCount
      d == run.duplicateCount
      f == run.failedCount
      first == IF s > 0 THEN {[type |-> "success", sheet |-> run.sheet]}
               ELSE IF d > 0 /\ f = 0 THEN {[type |-> "info", sheet |-> run.sheet]}
               ELSE IF f > 0 /\ s = 0 THEN {[type |-> "warning", sheet |-> run.sheet]}
               ELSE {}
      second == IF d > 0 /\ (s > 0 \/ f > 0)
                THEN {[type |-> "info", sheet |-> run.sheet]} ELSE {}
  IN [run EXCEPT !.toasts = @ \cup first \cup second]

(***************************************************************************)
(* processSpreadsheet.                                                     *)
(***************************************************************************)
\* entry: URL conversion, the is_active test, setImporting(true); cfg is the
\* configuration object the caller passes
StartWith(r, s, cfg) ==
  /\ FreeSlot(r)
  /\ runCount' = runCount + 1
  /\ LET run == [FreshRun("single", store) EXCEPT !.sheet = s, !.order = <<s>>]
     IN IF convertToCsvUrl(cfg.url) = Null
        THEN /\ runs' = [runs EXCEPT ![r] =
                           [Toast(run, "error", s) EXCEPT !.pc = "done",
                                                          !.status = "invalid_url"]]
             /\ UNCHANGED importing
        ELSE IF ~cfg.is_active
        THEN /\ runs' = [runs EXCEPT ![r] = [run EXCEPT !.pc = "done",
                                                        !.status = "inactive"]]
             /\ UNCHANGED importing
        ELSE /\ runs' = [runs EXCEPT ![r] = [run EXCEPT !.pc = "fetch"]]
             /\ importing' = TRUE
  /\ UNCHANGED <<store, sheetText, spreadsheets, serverSheets, importResults,
                 syncHistory, clock, faults>>
  /\ UNCHANGED fnVars
  /\ UNCHANGED dbVars
\* "Sync Now" on the row of spreadsheet s
StartSingle(r, s) ==
  /\ NoneInFlight
  /\ runCount < MaxRuns
  /\ StartWith(r, s, spreadsheets[s])
  /\ UNCHANGED timerVars

\* the catch and finally blocks of processSpreadsheet
CaughtSingle(r, run, message) ==
  LET isNoData == message = "No data found in spreadsheet"
      told == IF isNoData THEN run ELSE Toast(run, "error", run.sheet)
  IN /\ runs' = [runs EXCEPT ![r] =
                   [told EXCEPT !.pc = "done",
                                !.status = ErrorResultOf(run, message).status]]
     /\ importResults' = ErrorResultOf(run, message)
     /\ clock' = clock + 1
     /\ importing' = FALSE

\* await fetch(csvUrl); response.text(); parseCSV
FetchSingle(r) ==
  /\ runs[r].kind = "single" /\ runs[r].pc = "fetch"
  /\ \E env \in FetchEnvs :
       /\ env # "ok" => MayFail
       /\ faults' = faults + Cost(env)
       /\ IF env # "ok"
          THEN CaughtSingle(r, Fetched(runs[r], runs[r].sheet, env),
                            "Failed to fetch spreadsheet data")
          ELSE LET rows == parseCSV(sheetText[runs[r].sheet])
                   run == [Fetched(runs[r], runs[r].sheet, env)
                             EXCEPT !.parsed = rows, !.rows = rows]
               IN IF Len(rows) = 0
                  THEN CaughtSingle(r, run, "No data found in spreadsheet")
                  ELSE /\ runs' = [runs EXCEPT ![r] = [run EXCEPT !.pc = "list"]]
                       /\ UNCHANGED <<importResults, importing, clock>>
  /\ UNCHANGED <<store, sheetText, spreadsheets, serverSheets, syncHistory, runCount>>
  /\ UNCHANGED fnVars
  /\ UNCHANGED dbVars
  /\ UNCHANGED timerVars

\* await fetch('/backend/api/crm-leads.php?action=leads'); the two sets
ListSingle(r) ==
  /\ runs[r].kind = "single" /\ runs[r].pc = "list"
  /\ \E env \in ListEnvs :
       /\ env # "served" => MayFail
       /\ faults' = faults + Cost(env)
       /\ IF env = "network"
          THEN CaughtSingle(r, [runs[r] EXCEPT !.listed = env,
                                               !.storeAtList = store],
                            "Failed to fetch")
          ELSE /\ runs' = [runs EXCEPT ![r] =
                     [@ EXCEPT !.pc = "rows", !.i = 1, !.listed = env,
                               !.storeAtList = store,
                               !.existingEmails = EmailSet(ExistingLeads(store, env)),
                               !.existingPhones = PhoneSet(ExistingLeads(store, env))]]
               /\ UNCHANGED <<importResults, importing, clock>>
  /\ UNCHANGED <<store, sheetText, spreadsheets, serverSheets, syncHistory, runCount>>
  /\ UNCHANGED fnVars
  /\ UNCHANGED dbVars
  /\ UNCHANGED timerVars

\* the end of the row loop with the history left unsliced
EndOfRowsSingleUnsliced(r, run) ==
  IF run.i <= Len(run.rows)
  THEN /\ runs' = [runs EXCEPT ![r] = run]
       /\ UNCHANGED <<importResults, syncHistory, clock>>
  ELSE /\ runs' = [runs EXCEPT ![r] = [run EXCEPT !.pc = "save",
                                                  !.status = ResultOf(run).status]]
       /\ importResults' = ResultOf(run)
       /\ syncHistory' = <<ResultOf(run)>> \o syncHistory
       /\ clock' = clock + 1

\* after the last row: status, setImportResults, setSyncHistory
EndOfRowsSingle(r, run) ==
  IF run.i <= Len(run.rows)
  THEN /\ runs' = [runs EXCEPT ![r] = run]
       /\ UNCHANGED <<importResults, syncHistory, clock>>
  ELSE /\ runs' = [runs EXCEPT ![r] = [run EXCEPT !.pc = "save",
                                                  !.status = ResultOf(run).status]]
       /\ importResults' = ResultOf(run)
       /\ syncHistory' = <<ResultOf(run)>> \o FirstN(syncHistory, HistoryKept)
       /\ clock' = clock + 1

\* one iteration of the row loop of processSpreadsheet
RowSingle(r) ==
  /\ runs[r].kind = "single" /\ runs[r].pc = "rows"
  /\ IF PreCheck(runs[r]) # "create"
     THEN /\ EndOfRowsSingle(r, Skipped(runs[r]))
          /\ UNCHANGED <<store, faults>>
     ELSE \E env \in CreateEnvs :
            /\ env # "served" => MayFail
            /\ faults' = faults + Cost(env)
            /\ LET resp == ApiLeadsCreate(store, runs[r].rows[runs[r].i], env)
               IN /\ store' = resp.table
                  /\ EndOfRowsSingle(r, AfterCreateSingle(Called(runs[r], env, resp), resp))
  /\ UNCHANGED <<sheetText, spreadsheets, serverSheets, importing, runCount>>
  /\ UNCHANGED fnVars
  /\ UNCHANGED dbVars
  /\ UNCHANGED timerVars

\* await api.spreadsheets.update(id, {last_synced}); setSpreadsheets; toasts;
\* finally setImporting(false)
SaveSingle(r) ==
  /\ runs[r].kind = "single" /\ runs[r].pc = "save"
  /\ \E env \in UpdateEnvs :
       /\ env # "ok" => MayFail
       /\ faults' = faults + Cost(env)
       /\ serverSheets' =
            IF env = "ok"
            THEN [serverSheets EXCEPT ![runs[r].sheet].last_synced = "set"]
            ELSE serverSheets
       /\ runs' = [runs EXCEPT ![r] =
                     [OutcomeToasts(Updated(runs[r], env)) EXCEPT !.pc = "done"]]
  /\ spreadsheets' = [spreadsheets EXCEPT ![runs[r].sheet].last_synced = "set"]
  /\ importing' = FALSE
  /\ UNCHANGED <<store, sheetText, importResults, syncHistory, runCount, clock>>
  /\ UNCHANGED fnVars
  /\ UNCHANGED dbVars
  /\ UNCHANGED timerVars
(***************************************************************************)
(* handleProcessAllSpreadsheets.                                           *)
(***************************************************************************)
\* spreadsheets.filter(s => s.is_active), in list order
RECURSIVE ActiveFrom(_, _)
ActiveFrom(sheets, s) ==
  IF s \notin SheetIds THEN <<>>
  ELSE (IF sheets[s].is_active THEN <<[id |-> s, url |-> sheets[s].url]>> ELSE <<>>)
       \o ActiveFrom(sheets, s + 1)

ActiveSpreadsheets(sheets) == ActiveFrom(sheets, 1)

\* entry: the active filter, setImporting(true)
StartAllWith(r) ==
  /\ FreeSlot(r)
  /\ runCount' = runCount + 1
  /\ LET run == FreshRun("all", store)
         active == ActiveSpreadsheets(spreadsheets)
     IN IF Len(active) = 0
        THEN /\ runs' = [runs EXCEPT ![r] =
                           [Toast(run, "error", 0) EXCEPT !.pc = "done",
                                                          !.status = "none_active"]]
             /\ UNCHANGED importing
        ELSE /\ runs' = [runs EXCEPT ![r] =
                     [run EXCEPT !.pc = "alist", !.queue = active,
                                 !.order = [k \in 1..Len(active) |-> active[k].id]]]
             /\ importing' = TRUE
  /\ UNCHANGED <<store, sheetText, spreadsheets, serverSheets, importResults,
                 syncHistory, clock, faults>>
  /\ UNCHANGED fnVars
  /\ UNCHANGED dbVars
\* "Sync All" while no run is in flight
StartAll(r) ==
  /\ NoneInFlight
  /\ runCount < MaxRuns
  /\ StartAllWith(r)
  /\ UNCHANGED timerVars

\* the list read at the head of sync-all; a throw reaches the outer catch
ListAll(r) ==
  /\ runs[r].kind = "all" /\ runs[r].pc = "alist"
  /\ \E env \in ListEnvs :
       /\ env # "served" => MayFail
       /\ faults' = faults + Cost(env)
       /\ IF env = "network"
          THEN /\ runs' = [runs EXCEPT ![r] =
                     [Toast(@, "error", 0) EXCEPT !.pc = "done", !.listed = env,
                                                  !.storeAtList = store,
                                                  !.status = "aborted"]]
               /\ importing' = FALSE
          ELSE /\ runs' = [runs EXCEPT ![r] =
                     [@ EXCEPT !.pc = "afetch", !.listed = env,
                               !.storeAtList = store,
                               !.existingEmails = EmailSet(ExistingLeads(store, env)),
                               !.existingPhones = PhoneSet(ExistingLeads(store, env))]]
               /\ UNCHANGED importing
  /\ UNCHANGED <<store, sheetText, spreadsheets, serverSheets, importResults,
                 syncHistory, runCount, clock>>
  /\ UNCHANGED fnVars
  /\ UNCHANGED dbVars
  /\ UNCHANGED timerVars

\* the summary toast of sync-all
SummaryToast(run) ==
  IF run.totalSuccess > 0 \/ run.totalDuplicates > 0 THEN Toast(run, "success", 0)
  ELSE IF run.totalFailed > 0 THEN Toast(run, "error", 0)
  ELSE Toast(run, "info", 0)

\* the step to the next spreadsheet with a failed fetch, an invalid URL or an
\* empty sheet ending the whole loop
AdvanceAllBreakOnFailure(r, run) ==
  IF Len(run.queue) > 1 /\ run.pc # "afetch"
  THEN /\ runs' = [runs EXCEPT ![r] = [run EXCEPT !.pc = "afetch",
                                                  !.queue = Tail(@)]]
       /\ UNCHANGED importing
  ELSE /\ runs' = [runs EXCEPT ![r] = [SummaryToast(run) EXCEPT !.pc = "done",
                                                               !.queue = <<>>,
                                                               !.status = "complete"]]
       /\ importing' = FALSE

\* a spreadsheet whose fetch failed is fetched a second time before the run
\* moves on
AdvanceAllRetryFetch(r, run) ==
  IF /\ Len(run.fetches) > 0
     /\ run.fetches[Len(run.fetches)].sheet = run.sheet
     /\ run.fetches[Len(run.fetches)].env # "ok"
     /\ Cardinality({k \in 1..Len(run.fetches) :
                       run.fetches[k].sheet = run.sheet}) < 2
  THEN /\ runs' = [runs EXCEPT ![r] = [run EXCEPT !.pc = "afetch"]]
       /\ UNCHANGED importing
  ELSE IF Len(run.queue) > 1
  THEN /\ runs' = [runs EXCEPT ![r] = [run EXCEPT !.pc = "afetch",
                                                  !.queue = Tail(@)]]
       /\ UNCHANGED importing
  ELSE /\ runs' = [runs EXCEPT ![r] = [SummaryToast(run) EXCEPT !.pc = "done",
                                                               !.queue = <<>>,
                                                               !.status = "complete"]]
       /\ importing' = FALSE

\* continue with the next active spreadsheet, or the summary and the finally
AdvanceAll(r, run) ==
  IF Len(run.queue) > 1
  THEN /\ runs' = [runs EXCEPT ![r] = [run EXCEPT !.pc = "afetch",
                                                  !.queue = Tail(@)]]
       /\ UNCHANGED importing
  ELSE /\ runs' = [runs EXCEPT ![r] = [SummaryToast(run) EXCEPT !.pc = "done",
                                                               !.queue = <<>>,
                                                               !.status = "complete"]]
       /\ importing' = FALSE

\* head of one iteration: URL conversion, fetch, parseCSV
FetchAll(r) ==
  /\ runs[r].kind = "all" /\ runs[r].pc = "afetch"
  /\ LET sp == Head(runs[r].queue)
         run == [runs[r] EXCEPT !.sheet = sp.id, !.rows = <<>>, !.i = 0,
                                !.successCount = 0, !.failedCount = 0,
                                !.duplicateCount = 0, !.errors = <<>>]
     IN IF convertToCsvUrl(sp.url) = Null
        THEN /\ AdvanceAll(r, Toast(run, "error", sp.id))
             /\ UNCHANGED faults
        ELSE \E env \in FetchEnvs :
               /\ env # "ok" => MayFail
               /\ faults' = faults + Cost(env)
               /\ IF env # "ok"
                  THEN AdvanceAll(r, Toast(Fetched(run, sp.id, env), "error", sp.id))
                  ELSE LET rows == parseCSV(sheetText[sp.id])
                       IN IF Len(rows) = 0
                          THEN AdvanceAll(r, Toast(Fetched(run, sp.id, env),
                                                   "warning", sp.id))
                          ELSE /\ runs' = [runs EXCEPT ![r] =
                                     [Fetched(run, sp.id, env)
                                        EXCEPT !.pc = "arows", !.rows = rows,
                                                 !.i = 1,
                                                 !.parsed = @ \o rows]]
                               /\ UNCHANGED importing
  /\ UNCHANGED <<store, sheetText, spreadsheets, serverSheets, importResults,
                 syncHistory, runCount, clock>>
  /\ UNCHANGED fnVars
  /\ UNCHANGED dbVars
  /\ UNCHANGED timerVars

\* after the last row of a spreadsheet: the totals
EndOfRowsAll(run) ==
  IF run.i <= Len(run.rows) THEN run
  ELSE [run EXCEPT !.pc = "asave",
                   !.totalSuccess = @ + run.successCount,
                   !.totalFailed = @ + run.failedCount,
                   !.totalDuplicates = @ + run.duplicateCount]

\* one iteration of the row loop of sync-all
RowAll(r) ==
  /\ runs[r].kind = "all" /\ runs[r].pc = "arows"
  /\ IF PreCheck(runs[r]) # "create"
     THEN /\ runs' = [runs EXCEPT ![r] = EndOfRowsAll(Skipped(runs[r]))]
          /\ UNCHANGED <<store, faults>>
     ELSE \E env \in CreateEnvs :
            /\ env # "served" => MayFail
            /\ faults' = faults + Cost(env)
            /\ LET resp == ApiLeadsCreate(store, runs[r].rows[runs[r].i], env)
               IN /\ store' = resp.table
                  /\ runs' = [runs EXCEPT ![r] =
                        EndOfRowsAll(AfterCreateAll(Called(runs[r], env, resp), resp))]
  /\ UNCHANGED <<sheetText, spreadsheets, serverSheets, importing, importResults,
                 syncHistory, runCount, clock>>
  /\ UNCHANGED fnVars
  /\ UNCHANGED dbVars
  /\ UNCHANGED timerVars

\* last_synced update for one spreadsheet (setSpreadsheets only when the
\* update did not throw), the per-spreadsheet toasts, then the next one
SaveAll(r) ==
  /\ runs[r].kind = "all" /\ runs[r].pc = "asave"
  /\ \E env \in UpdateEnvs :
       /\ env # "ok" => MayFail
       /\ faults' = faults + Cost(env)
       /\ IF env = "ok"
          THEN /\ serverSheets' = [serverSheets EXCEPT ![runs[r].sheet].last_synced = "set"]
               /\ spreadsheets' = [spreadsheets EXCEPT ![runs[r].sheet].last_synced = "set"]
          ELSE UNCHANGED <<serverSheets, spreadsheets>>
       /\ AdvanceAll(r, OutcomeToasts(Updated(runs[r], env)))
  /\ UNCHANGED <<store, sheetText, importResults, syncHistory, runCount, clock>>
  /\ UNCHANGED fnVars
  /\ UNCHANGED dbVars
  /\ UNCHANGED timerVars
(***************************************************************************)
(* Initial states: what the spreadsheets serve, the configurations, and    *)
(* the leads already in the store.                                         *)
(***************************************************************************)
\* a text with zero non-blank lines
TextBlank ==
  <<" ", "\n", "\n", "\t">>

\* a header and no data row
TextHeaderOnly ==
  <<"n", "a", "m", "e", ",", "E", "m", "a", "i", "l", ",", "p", "h", "o",
     "n", "e">>

\* two complete rows
TextAB ==
  <<"n", "a", "m", "e", ",", "E", "m", "a", "i", "l", ",", "p", "h", "o",
     "n", "e", "\n", "n", ",", "a", ",", "1", "\n", "n", ",", "b", ",", "2">>

\* shares the email b (case-varied) and the phone 2 with TextAB
TextBC ==
  <<"n", "a", "m", "e", ",", "E", "m", "a", "i", "l", ",", "p", "h", "o",
     "n", "e", "\n", "n", ",", "B", ",", "+", "2", "\n", "n", ",", "c", ",",
     "3", "\n">>

\* rows that lack a name or an email around a complete row
TextMissing ==
  <<"n", "a", "m", "e", ",", "E", "m", "a", "i", "l", ",", "p", "h", "o",
     "n", "e", "\n", ",", "a", ",", "1", "\n", "n", ",", "c", ",", "3", "\n",
     "n", ",", ",", "4">>

\* a case-varied email and a row without a phone
TextCaseA ==
  <<"F", "u", "l", "l", " ", "N", "a", "m", "e", ",", "E", "m", "a", "i",
     "l", " ", "A", "d", "d", "r", "e", "s", "s", ",", "M", "o", "b", "i",
     "l", "e", "\n", "N", ",", "A", ",", "p", ":", "+", "5", "\n", "n", ",",
     "d", ",">>

StoreEmpty == <<>>

\* leads entered by hand: an upper-case email and raw phone prefixes
StoreAB ==
  << [id |-> 1, email |-> <<"a">>, phone |-> <<"+", "1">>],
     [id |-> 2, email |-> <<"B">>, phone |-> <<"p", ":", "2">>] >>

StoreA == <<[id |-> 1, email |-> <<"a">>, phone |-> <<"+", "3">>]>>

Scenarios ==
  { [text |-> <<TextAB, TextBC>>, url |-> <<"sheet", "csv">>,
     active |-> <<TRUE, TRUE>>, store |-> StoreEmpty],
    [text |-> <<TextAB, TextCaseA>>, url |-> <<"sheet", "sheet">>,
     active |-> <<TRUE, TRUE>>, store |-> StoreAB],
    [text |-> <<TextBlank, TextHeaderOnly>>, url |-> <<"csv", "sheet">>,
     active |-> <<TRUE, TRUE>>, store |-> StoreA],
    [text |-> <<TextMissing, TextAB>>, url |-> <<"sheet", "sheet">>,
     active |-> <<TRUE, FALSE>>, store |-> StoreEmpty],
    [text |-> <<TextAB, TextBC>>, url |-> <<"bad", "sheet">>,
     active |-> <<TRUE, TRUE>>, store |-> StoreA],
    [text |-> <<TextAB, TextBC>>, url |-> <<"sheet", "sheet">>,
     active |-> <<FALSE, FALSE>>, store |-> StoreAB] }

\* the configuration the pure-function specifications leave untouched
QuietScenario ==
  [text |-> <<TextBlank, TextBlank>>, url |-> <<"sheet", "sheet">>,
   active |-> <<TRUE, TRUE>>, store |-> StoreEmpty]

\* useState({}): no timer handle is held
FirstRenderIntervals == [s \in SheetIds |-> 0]

\* the page after loadSpreadsheets has answered with no auto-sync to arm
InitLoaded ==
  /\ mounted = TRUE
  /\ loadPc = "done"
  /\ syncIntervals = FirstRenderIntervals
  /\ timers = <<>>
  /\ edits = {}
  /\ applied = [s \in SheetIds |-> "none"]
  /\ editCount = 0
  /\ tickCount = 0

\* an empty leads table and no request being served
InitDb ==
  /\ leadsTable = <<>>
  /\ autoIncrement = 1
  /\ requests = [q \in Clients |-> NoRequest]

InitFn ==
  /\ fnPc = "idle"
  /\ phoneArg = <<>>
  /\ phoneRes = <<>>
  /\ csvArg = <<>>
  /\ csvRes = <<>>
  /\ lineArg = <<>>
  /\ lineRes = <<>>

InitSyncWith(sc) ==
  /\ store = sc.store
  /\ sheetText = [s \in SheetIds |-> sc.text[s]]
  /\ spreadsheets = [s \in SheetIds |->
       [url |-> sc.url[s], is_active |-> sc.active[s], auto_sync |-> FALSE,
        last_synced |-> "never"]]
  /\ serverSheets = spreadsheets
  /\ importing = FALSE
  /\ importResults = NoResult
  /\ syncHistory = <<>>
  /\ runs = [r \in Slots |-> IdleRun]
  /\ runCount = 0
  /\ clock = 1
  /\ faults = 0
  /\ InitLoaded
  /\ InitDb

Init == InitFn /\ \E sc \in Scenarios : InitSyncWith(sc)

Next ==
  \E r \in Slots :
    \/ \E s \in SheetIds : StartSingle(r, s)
    \/ FetchSingle(r)
    \/ ListSingle(r)
    \/ RowSingle(r)
    \/ SaveSingle(r)
    \/ StartAll(r)
    \/ ListAll(r)
    \/ FetchAll(r)
    \/ RowAll(r)
    \/ SaveAll(r)

Spec == Init /\ [][Next]_vars
(***************************************************************************)
(* Pure functions applied to bounded inputs.                               *)
(***************************************************************************)
InitClean ==
  /\ fnPc = "ready"
  /\ phoneArg \in StringsUpTo(PhoneAlphabet, MaxPhoneLen)
  /\ phoneRes = <<>>
  /\ csvArg = <<>>
  /\ csvRes = <<>>
  /\ lineArg = <<>>
  /\ lineRes = <<>>
  /\ InitSyncWith(QuietScenario)

CleanPhone ==
  /\ fnPc = "ready"
  /\ phoneRes' = cleanPhoneNumber(phoneArg)
  /\ fnPc' = "done"
  /\ UNCHANGED <<phoneArg, csvArg, csvRes, lineArg, lineRes>>
  /\ UNCHANGED syncVars
  /\ UNCHANGED dbVars
  /\ UNCHANGED timerVars

SpecClean == InitClean /\ [][CleanPhone]_vars

InitParse ==
  /\ fnPc = "ready"
  /\ phoneArg = <<>>
  /\ phoneRes = <<>>
  /\ csvArg \in CsvTexts
  /\ csvRes = <<>>
  /\ lineArg = <<>>
  /\ lineRes = <<>>
  /\ InitSyncWith(QuietScenario)

ParseCsv ==
  /\ fnPc = "ready"
  /\ csvRes' = parseCSV(csvArg)
  /\ fnPc' = "done"
  /\ UNCHANGED <<phoneArg, phoneRes, csvArg, lineArg, lineRes>>
  /\ UNCHANGED syncVars
  /\ UNCHANGED dbVars
  /\ UNCHANGED timerVars

SpecParse == InitParse /\ [][ParseCsv]_vars


\* the characters that matter to the tokenizer: a letter, the comma, the
\* double quote and the space
LineAlphabet == {"a", ",", "\"", " "}

InitLine ==
  /\ fnPc = "ready"
  /\ phoneArg = <<>>
  /\ phoneRes = <<>>
  /\ csvArg = <<>>
  /\ csvRes = <<>>
  /\ lineArg \in StringsUpTo(LineAlphabet, MaxLineLen)
  /\ lineRes = <<>>
  /\ InitSyncWith(QuietScenario)

ParseLine ==
  /\ fnPc = "ready"
  /\ lineRes' = parseCSVLine(lineArg)
  /\ fnPc' = "done"
  /\ UNCHANGED <<phoneArg, phoneRes, csvArg, csvRes, lineArg>>
  /\ UNCHANGED syncVars
  /\ UNCHANGED dbVars
  /\ UNCHANGED timerVars

SpecLine == InitLine /\ [][ParseLine]_vars

(***************************************************************************)
(* A long series of single-sheet runs, for the sync history.               *)
(***************************************************************************)
\* most single-sheet runs in one behaviour of the history specification
MaxHistoryRuns == 12

\* one spreadsheet with rows and one without: runs that append a result to
\* the history alternate freely with runs that end in the catch block
HistoryScenario ==
  [text |-> <<TextAB, TextBlank>>, url |-> <<"sheet", "csv">>,
   active |-> <<TRUE, TRUE>>, store |-> StoreEmpty]

InitHistory ==
  /\ InitFn
  /\ InitDb
  /\ store = HistoryScenario.store
  /\ sheetText = [s \in SheetIds |-> HistoryScenario.text[s]]
  /\ spreadsheets = [s \in SheetIds |->
       [url |-> HistoryScenario.url[s], is_active |-> HistoryScenario.active[s],
        auto_sync |-> FALSE, last_synced |-> "never"]]
  /\ serverSheets = spreadsheets
  /\ importing = FALSE
  /\ importResults = NoResult
  /\ syncHistory = <<>>
  /\ runs = [r \in Slots |-> IdleRun]
  /\ runCount = 0
  /\ clock = 1
  \* the requests of this series are all served
  /\ faults = MaxFaults
  /\ InitLoaded

\* "Sync Now", one run after the other
StartHistory(r, s) ==
  /\ NoneInFlight
  /\ runCount < MaxHistoryRuns
  /\ StartWith(r, s, spreadsheets[s])
  /\ UNCHANGED timerVars

NextHistory ==
  \E r \in Slots :
    \/ \E s \in SheetIds : StartHistory(r, s)
    \/ FetchSingle(r)
    \/ ListSingle(r)
    \/ RowSingle(r)
    \/ SaveSingle(r)

SpecHistory == InitHistory /\ [][NextHistory]_vars

(***************************************************************************)
(* Auto-sync: loadSpreadsheets, startAutoSync, stopAutoSync,               *)
(* handleEditSpreadsheet, the interval callbacks and the unmount cleanup.  *)
(* A function of the component reads the syncIntervals of the render that  *)
(* created it: "seen" below is that render's value.                        *)
(***************************************************************************)
\* most edits issued in one behaviour
MaxEdits == 2
\* most timer ticks fired in one behaviour
MaxTicks == 1

\* clearInterval(seen[s]) when seen holds a handle for s
Cleared(tm, seen, s) ==
  IF seen[s] # 0 THEN [tm EXCEPT ![seen[s]].live = FALSE] ELSE tm

\* startAutoSync: clear the handle the closure sees, setInterval, and the
\* functional update of syncIntervals
startAutoSync(tm, held, seen, s, cfg) ==
  LET made == Append(Cleared(tm, seen, s),
                     [sheet |-> s, cfg |-> cfg, live |-> TRUE])
  IN [timers |-> made, held |-> [held EXCEPT ![s] = Len(made)]]

\* stopAutoSync: only when the closure sees a handle for s
stopAutoSync(tm, held, seen, s) ==
  IF seen[s] # 0
  THEN [timers |-> Cleared(tm, seen, s), held |-> [held EXCEPT ![s] = 0]]
  ELSE [timers |-> tm, held |-> held]

\* spreadsheetsData.forEach: startAutoSync for each auto_sync, active one
RECURSIVE ArmFrom(_, _, _, _, _)
ArmFrom(tm, held, seen, data, s) ==
  IF s \notin SheetIds THEN [timers |-> tm, held |-> held]
  ELSE IF data[s].auto_sync /\ data[s].is_active
  THEN LET armed == startAutoSync(tm, held, seen, s, data[s])
       IN ArmFrom(armed.timers, armed.held, seen, data, s + 1)
  ELSE ArmFrom(tm, held, seen, data, s + 1)

\* the live intervals that call processSpreadsheet for spreadsheet s
LiveTimers(s) ==
  {t \in 1..Len(timers) : timers[t].live /\ timers[t].sheet = s}

\* loadSpreadsheets after its response; it was called by the mount effect,
\* so its startAutoSync is the one of the first render.  State setters of an
\* unmounted component have no effect.
LoadResponse ==
  /\ loadPc = "pending"
  /\ loadPc' = "done"
  /\ \E env \in UpdateEnvs :
       /\ env # "ok" => MayFail
       /\ faults' = faults + Cost(env)
       /\ IF env = "ok"
          THEN LET armed == ArmFrom(timers, syncIntervals, FirstRenderIntervals,
                                    serverSheets, 1)
               IN /\ spreadsheets' = IF mounted THEN serverSheets ELSE spreadsheets
                  /\ timers' = armed.timers
                  /\ syncIntervals' = IF mounted THEN armed.held ELSE syncIntervals
          ELSE UNCHANGED <<spreadsheets, timers, syncIntervals>>
  /\ UNCHANGED <<mounted, edits, applied, editCount, tickCount>>
  /\ UNCHANGED <<store, sheetText, serverSheets, importing, importResults,
                 syncHistory, runs, runCount, clock>>
  /\ UNCHANGED fnVars
  /\ UNCHANGED dbVars
\* the configuration an edit control sends for the row of spreadsheet s
EditKinds == {"auto_sync", "is_active", "save"}

Edited(cfg, kind) ==
  CASE kind = "auto_sync" -> [cfg EXCEPT !.auto_sync = ~@]
    [] kind = "is_active" -> [cfg EXCEPT !.is_active = ~@]
    [] OTHER -> cfg

\* handleEditSpreadsheet up to its await (also through
\* toggleSpreadsheetAutoSync and toggleSpreadsheetActive)
IssueEdit(s, kind) ==
  /\ mounted /\ loadPc = "done"
  /\ s \in DOMAIN spreadsheets
  /\ editCount < MaxEdits
  /\ editCount' = editCount + 1
  /\ edits' = edits \cup {[id |-> editCount + 1, sheet |-> s,
                           cfg |-> Edited(spreadsheets[s], kind),
                           seen |-> syncIntervals]}
  /\ UNCHANGED <<mounted, loadPc, syncIntervals, timers, applied, tickCount>>
  /\ UNCHANGED syncVars
  /\ UNCHANGED fnVars
  /\ UNCHANGED dbVars
\* handleEditSpreadsheet after its response
EditResponse(e) ==
  /\ e \in edits
  /\ edits' = edits \ {e}
  /\ \E env \in UpdateEnvs :
       /\ env # "ok" => MayFail
       /\ faults' = faults + Cost(env)
       /\ IF env = "ok"
          THEN LET data == [e.cfg EXCEPT
                              !.last_synced = serverSheets[e.sheet].last_synced]
                   on == data.auto_sync /\ data.is_active
                   res == IF on
                          THEN startAutoSync(timers, syncIntervals, e.seen,
                                             e.sheet, data)
                          ELSE stopAutoSync(timers, syncIntervals, e.seen,
                                            e.sheet)
               IN /\ serverSheets' = [serverSheets EXCEPT ![e.sheet] = data]
                  /\ spreadsheets' =
                       IF mounted THEN [spreadsheets EXCEPT ![e.sheet] = data]
                       ELSE spreadsheets
                  /\ timers' = res.timers
                  /\ syncIntervals' = IF mounted THEN res.held ELSE syncIntervals
                  /\ applied' = [applied EXCEPT
                                   ![e.sheet] = IF on THEN "on" ELSE "off"]
          ELSE UNCHANGED <<serverSheets, spreadsheets, timers, syncIntervals,
                           applied>>
  /\ UNCHANGED <<mounted, loadPc, editCount, tickCount>>
  /\ UNCHANGED <<store, sheetText, importing, importResults, syncHistory, runs,
                 runCount, clock>>
  /\ UNCHANGED fnVars
  /\ UNCHANGED dbVars
\* an interval fires: processSpreadsheet with the configuration it was armed
\* with
Tick(t, r) ==
  /\ t \in 1..Len(timers) /\ timers[t].live
  /\ tickCount < MaxTicks
  /\ tickCount' = tickCount + 1
  /\ StartWith(r, timers[t].sheet, timers[t].cfg)
  /\ UNCHANGED <<mounted, loadPc, syncIntervals, timers, edits, applied,
                 editCount>>

\* clearInterval for every handle of the first render's syncIntervals
RECURSIVE ClearedFrom(_, _, _)
ClearedFrom(tm, seen, s) ==
  IF s \notin SheetIds THEN tm
  ELSE ClearedFrom(Cleared(tm, seen, s), seen, s + 1)

\* the cleanup of the mount effect; a run that is in flight or that a live
\* interval starts afterwards goes on as before (the state it sets is no
\* longer rendered)
Unmount ==
  /\ mounted
  /\ mounted' = FALSE
  /\ timers' = ClearedFrom(timers, FirstRenderIntervals, 1)
  /\ UNCHANGED <<loadPc, syncIntervals, edits, applied, editCount, tickCount>>
  /\ UNCHANGED syncVars
  /\ UNCHANGED fnVars
  /\ UNCHANGED dbVars
\* one complete row
TextA ==
  <<"n", "a", "m", "e", ",", "E", "m", "a", "i", "l", ",", "p", "h", "o",
     "n", "e", "\n", "n", ",", "a", ",", "1">>

\* the configurations the server holds when the page is mounted
TimerConfigs ==
  { [s \in SheetIds |->
       [url |-> "sheet", is_active |-> TRUE, auto_sync |-> auto[s],
        last_synced |-> "never"]] : auto \in [SheetIds -> BOOLEAN] }

\* the first render: nothing loaded, no handle held
InitTimers ==
  /\ InitFn
  /\ InitDb
  /\ store = StoreEmpty
  /\ sheetText = [s \in SheetIds |-> IF s = 1 THEN TextA ELSE TextBlank]
  /\ spreadsheets = <<>>
  /\ serverSheets \in TimerConfigs
  /\ importing = FALSE
  /\ importResults = NoResult
  /\ syncHistory = <<>>
  /\ runs = [r \in Slots |-> IdleRun]
  /\ runCount = 0
  /\ clock = 1
  /\ faults = MaxFaults - 1
  /\ mounted = TRUE
  /\ loadPc = "pending"
  /\ syncIntervals = FirstRenderIntervals
  /\ timers = <<>>
  /\ edits = {}
  /\ applied = [s \in SheetIds |-> "none"]
  /\ editCount = 0
  /\ tickCount = 0

NextTimers ==
  \/ LoadResponse
  \/ \E s \in SheetIds, kind \in EditKinds : IssueEdit(s, kind)
  \/ \E e \in edits : EditResponse(e)
  \/ \E t \in 1..Len(timers), r \in Slots : Tick(t, r)
  \/ Unmount
  \/ \E r \in Slots :
       \/ FetchSingle(r)
       \/ ListSingle(r)
       \/ RowSingle(r)
       \/ SaveSingle(r)

SpecTimers == InitTimers /\ [][NextTimers]_vars

(***************************************************************************)
(* The page with an armed timer and the manual controls: runs may overlap. *)
(* The only thing that keeps a manual run from starting is the disabled    *)
(* state of its button; a timer callback calls processSpreadsheet          *)
(* directly.                                                               *)
(***************************************************************************)
\* "Sync Now": disabled={importing || !spreadsheet.is_active}
ClickSyncNow(r, s) ==
  /\ mounted /\ loadPc = "done"
  /\ s \in DOMAIN spreadsheets
  /\ ~importing /\ spreadsheets[s].is_active
  /\ runCount < MaxRuns
  /\ StartWith(r, s, spreadsheets[s])
  /\ UNCHANGED timerVars

\* "Sync All": disabled={importing || no active spreadsheet}
ClickSyncAll(r) ==
  /\ mounted /\ loadPc = "done"
  /\ DOMAIN spreadsheets = SheetIds
  /\ ~importing /\ Len(ActiveSpreadsheets(spreadsheets)) > 0
  /\ runCount < MaxRuns
  /\ StartAllWith(r)
  /\ UNCHANGED timerVars

\* spreadsheet 1 has auto-sync on, spreadsheet 2 has it off
OverlapConfig ==
  [s \in SheetIds |->
     [url |-> "sheet", is_active |-> TRUE, auto_sync |-> (s = 1),
      last_synced |-> "never"]]

InitOverlap ==
  /\ InitFn
  /\ InitDb
  /\ store = StoreEmpty
  /\ sheetText = [s \in SheetIds |-> IF s = 1 THEN TextA ELSE TextBlank]
  /\ spreadsheets = <<>>
  /\ serverSheets = OverlapConfig
  /\ importing = FALSE
  /\ importResults = NoResult
  /\ syncHistory = <<>>
  /\ runs = [r \in Slots |-> IdleRun]
  /\ runCount = 0
  /\ clock = 1
  /\ faults = MaxFaults - 1
  /\ mounted = TRUE
  /\ loadPc = "pending"
  /\ syncIntervals = FirstRenderIntervals
  /\ timers = <<>>
  /\ edits = {}
  /\ applied = [s \in SheetIds |-> "none"]
  /\ editCount = 0
  /\ tickCount = 0

NextOverlap ==
  \/ LoadResponse
  \/ \E t \in 1..Len(timers), r \in Slots : Tick(t, r)
  \/ \E r \in Slots :
       \/ \E s \in SheetIds : ClickSyncNow(r, s)
       \/ ClickSyncAll(r)
       \/ FetchSingle(r)
       \/ ListSingle(r)
       \/ RowSingle(r)
       \/ SaveSingle(r)
       \/ ListAll(r)
       \/ FetchAll(r)
       \/ RowAll(r)
       \/ SaveAll(r)

SpecOverlap == InitOverlap /\ [][NextOverlap]_vars

(***************************************************************************)
(* crm-leads.php at statement granularity: create-lead requests (POST) and *)
(* deletions (DELETE) served concurrently on one leads table.                   *)
(***************************************************************************)
DigitChars == <<"0", "1", "2", "3", "4", "5", "6", "7", "8", "9">>

\* the decimal digits of a non-negative integer
RECURSIVE DecimalOf(_)
DecimalOf(n) ==
  IF n < 10 THEN <<DigitChars[n + 1]>>
  ELSE Append(DecimalOf(n \div 10), DigitChars[(n % 10) + 1])

\* str_pad(s, width, '0', STR_PAD_LEFT)
RECURSIVE PadLeft(_, _)
PadLeft(s, width) == IF Len(s) >= width THEN s ELSE PadLeft(<<"0">> \o s, width)

\* SELECT MAX(id): 0 stands for the NULL of an empty table
RECURSIVE MaxIdFrom(_, _)
MaxIdFrom(table, k) ==
  IF k > Len(table) THEN 0
  ELSE LET rest == MaxIdFrom(table, k + 1)
       IN IF table[k].id > rest THEN table[k].id ELSE rest

\* generateLeadId: MAX(id) + 1, formatted
generateLeadId(table) ==
  <<"L", "E", "A", "D", "-">> \o PadLeft(DecimalOf(MaxIdFrom(table, 1) + 1), LeadIdWidth)

\* the requests between generateLeadId and the INSERT
Pending == {q \in Clients : requests[q].pc = "insert"}

\* createLead up to and including generateLeadId (lines 379-386)
BeginCreate(q) ==
  /\ requests[q].pc = "idle"
  /\ (autoIncrement - 1) + Cardinality(Pending) < MaxCreates
  /\ requests' = [requests EXCEPT ![q] = [pc |-> "insert",
                                           leadId |-> generateLeadId(leadsTable)]]
  /\ UNCHANGED <<leadsTable, autoIncrement>>
  /\ UNCHANGED syncVars
  /\ UNCHANGED fnVars
  /\ UNCHANGED timerVars

\* the INSERT of createLead (lines 399-442); a PDOException stores nothing
InsertLead(q) ==
  /\ requests[q].pc = "insert"
  /\ requests' = [requests EXCEPT ![q] = NoRequest]
  /\ \E ok \in BOOLEAN :
       /\ ~ok => MayFail
       /\ faults' = faults + (IF ok THEN 0 ELSE 1)
       /\ IF ok
          THEN /\ leadsTable' = Append(leadsTable, [id |-> autoIncrement,
                                            lead_id |-> requests[q].leadId])
               /\ autoIncrement' = autoIncrement + 1
          ELSE UNCHANGED <<leadsTable, autoIncrement>>
  /\ UNCHANGED <<store, sheetText, spreadsheets, serverSheets, importing,
                 importResults, syncHistory, runs, runCount, clock>>
  /\ UNCHANGED fnVars
  /\ UNCHANGED timerVars

\* deleteLead with one id (lines 523-533)
DeleteLead(k) ==
  /\ k \in 1..Len(leadsTable)
  /\ leadsTable' = [j \in 1..(Len(leadsTable) - 1) |->
                     IF j < k THEN leadsTable[j] ELSE leadsTable[j + 1]]
  /\ UNCHANGED <<autoIncrement, requests>>
  /\ UNCHANGED syncVars
  /\ UNCHANGED fnVars
  /\ UNCHANGED timerVars

InitLeads ==
  /\ InitFn
  /\ InitSyncWith(QuietScenario)

NextLeads ==
  \/ \E q \in Clients : BeginCreate(q)
  \/ \E q \in Clients : InsertLead(q)
  \/ \E k \in 1..MaxCreates : DeleteLead(k)

SpecLeads == InitLeads /\ [][NextLeads]_vars
(***************************************************************************)
(* Claims.                                                                 *)
(***************************************************************************)
\* C4: for a phone of the form prefix + digits, with the prefix one of
\* "p:", "p+", "p:+" or "+", cleaning returns exactly the digit string.
PhonePrefixes == {<<"p", ":">>, <<"p", "+">>, <<"p", ":", "+">>, <<"+">>}

IsDigits(s) == s # <<>> /\ \A k \in 1..Len(s) : s[k] \in Digits

HasPrefix(s, pre) == Len(s) >= Len(pre) /\ SubSeq(s, 1, Len(pre)) = pre

C4_CleanYieldsDigits ==
  fnPc = "done" =>
    \A pre \in PhonePrefixes :
      LET rest == SubSeq(phoneArg, Len(pre) + 1, Len(phoneArg))
      IN (HasPrefix(phoneArg, pre) /\ IsDigits(rest)) => phoneRes = rest

C4_Witness ==
  /\ fnPc = "done"
  /\ phoneArg = <<"p", ":", "+", "1">>
  /\ phoneRes = <<"1">>

\* C1: the rows returned by parseCSV are pairwise distinct in email, and
\* any two returned rows that both have a phone have different phones.
C1_RowsUnique ==
  fnPc = "done" =>
    \A i \in 1..Len(csvRes) : \A j \in 1..Len(csvRes) :
      i < j =>
        /\ csvRes[i].email # csvRes[j].email
        /\ (csvRes[i].phone # <<>> /\ csvRes[j].phone # <<>>)
             => csvRes[i].phone # csvRes[j].phone

\* a text where a repeated email and a repeated phone were both dropped
C1_Witness ==
  /\ fnPc = "done"
  /\ Len(csvRes) = 1
  /\ LET built == BuiltRows(csvArg)
     IN /\ Len(built) = 3
        /\ \A k \in 1..3 : HasRequired(built[k])
        /\ built[2].email = built[1].email /\ built[2].phone # built[1].phone
        /\ built[3].email # built[1].email /\ built[3].phone = built[1].phone
        /\ built[1].phone # <<>>

\* position in the file of a returned row: the first data row equal to it
FirstPos(built, r) ==
  CHOOSE k \in 1..Len(built) : built[k] = r /\ \A j \in 1..(k - 1) : built[j] # r

\* first data row of the file, among those with a name, that carries the email
FirstCarrier(built, email) ==
  CHOOSE k \in 1..Len(built) :
    /\ HasRequired(built[k]) /\ built[k].email = email
    /\ \A j \in 1..(k - 1) : ~(HasRequired(built[j]) /\ built[j].email = email)

\* C2: when several data rows carry the same email, the row parseCSV retains
\* for that email is the first data row in file order carrying it, including
\* when that first row carries a phone already seen on an earlier row.
C2_FirstCarrierRetained ==
  fnPc = "done" =>
    LET built == BuiltRows(csvArg)
    IN \A m \in 1..Len(csvRes) :
         csvRes[m] = built[FirstCarrier(built, csvRes[m].email)]

\* a data row that cannot be retained: it lacks a name or an email, or its
\* phone is the phone of a row retained from an earlier line
Ineligible(built, res, j) ==
  \/ ~HasRequired(built[j])
  \/ /\ built[j].phone # <<>>
     /\ \E m \in 1..Len(res) :
          res[m].phone = built[j].phone /\ FirstPos(built, res[m]) < j

\* C2 (amended): the row retained for an email is the first data row in file
\* order carrying it that has a name and whose phone is empty or not the
\* phone of an earlier retained row; whenever such a row exists one is
\* retained for its email.
C2_FirstEligibleRetained ==
  fnPc = "done" =>
    LET built == BuiltRows(csvArg)
    IN /\ \A m \in 1..Len(csvRes) :
            /\ \E k \in 1..Len(built) : built[k] = csvRes[m]
            /\ ~Ineligible(built, csvRes, FirstPos(built, csvRes[m]))
            /\ \A j \in 1..(FirstPos(built, csvRes[m]) - 1) :
                 built[j].email = csvRes[m].email => Ineligible(built, csvRes, j)
       /\ \A j \in 1..Len(built) :
            ~Ineligible(built, csvRes, j) =>
              \E m \in 1..Len(csvRes) : csvRes[m].email = built[j].email

\* the first row carrying the second email repeats the first row's phone and
\* is skipped; the later row carrying that email is the one retained
C2_Witness ==
  /\ fnPc = "done"
  /\ LET built == BuiltRows(csvArg)
     IN /\ Len(built) = 3
        /\ \A k \in 1..3 : HasRequired(built[k])
        /\ built[1].phone # <<>>
        /\ built[2].phone = built[1].phone
        /\ built[2].email # built[1].email
        /\ built[3].email = built[2].email
        /\ csvRes = <<built[1], built[3]>>


\* C27: phone cleaning is idempotent: cleaning the result of cleaning a phone
\* string returns it unchanged, so the key parseCSV keeps (cleaned once)
\* equals the key the orchestrator compares (the prefix pattern applied to it
\* once more).
C27_CleanIdempotent ==
  fnPc = "done" =>
    /\ cleanPhoneNumber(phoneRes) = phoneRes
    /\ Trim(StripPhonePrefix(phoneRes)) = phoneRes

\* the text without the data lines whose row lacks a name or an email
RECURSIVE CompleteLines(_, _, _)
CompleteLines(lines, i, headers) ==
  IF i > Len(lines) THEN <<>>
  ELSE (IF HasRequired(BuildRow(headers, lines[i])) THEN <<lines[i]>> ELSE <<>>)
       \o CompleteLines(lines, i + 1, headers)

CompleteOnly(csvText) ==
  LET lines == NonBlankLines(csvText)
  IN IF Len(lines) = 0 THEN <<>>
     ELSE JoinLines(<<lines[1]>> \o CompleteLines(lines, 2, HeaderCells(lines[1])))

\* C24: parseCSV never returns a row with an empty name or an empty email: a
\* data row lacking either after header mapping is discarded, and a discarded
\* row adds nothing to the seen-emails or seen-phones sets, so the result is
\* the result for the text with those rows removed.
C24_IncompleteRowsLeaveNoTrace ==
  fnPc = "done" =>
    /\ \A m \in 1..Len(csvRes) : csvRes[m].name # <<>> /\ csvRes[m].email # <<>>
    /\ csvRes = parseCSV(CompleteOnly(csvArg))

\* a row without a name carries an email and a phone, and a later complete
\* row carrying the same email and phone is retained
C24_Witness ==
  /\ fnPc = "done"
  /\ LET built == BuiltRows(csvArg)
     IN \E j \in 1..Len(built) : \E k \in 1..Len(built) :
          /\ j < k
          /\ ~HasRequired(built[j]) /\ HasRequired(built[k])
          /\ built[j].email = built[k].email /\ built[j].email # <<>>
          /\ built[j].phone = built[k].phone /\ built[j].phone # <<>>
          /\ \E m \in 1..Len(csvRes) : csvRes[m] = built[k]

\* the double quotes of a line before position i
QuotesBefore(line, i) == Cardinality({j \in 1..(i - 1) : line[j] = "\""})

\* the positions of the commas that stand outside double quotes
UnquotedCommas(line) ==
  {i \in 1..Len(line) : line[i] = "," /\ QuotesBefore(line, i) % 2 = 0}

\* the n-th smallest member of a set of positions
RECURSIVE NthOf(_, _)
NthOf(S, n) ==
  LET least == CHOOSE x \in S : \A y \in S : x <= y
  IN IF n = 1 THEN least ELSE NthOf(S \ {least}, n - 1)

\* the text of field n: from after the (n-1)-th unquoted comma up to the n-th
Between(line, n) ==
  LET cuts == UnquotedCommas(line)
      from == IF n = 1 THEN 1 ELSE NthOf(cuts, n - 1) + 1
      to == IF n > Cardinality(cuts) THEN Len(line) ELSE NthOf(cuts, n) - 1
  IN SubSeq(line, from, to)

\* C25: for every line, the tokenizer splits on exactly the commas that occur
\* outside double quotes: a double quote toggles the inside-quotes state and
\* never appears in an output field, the number of fields is one plus the
\* number of unquoted commas, and each field is the text between consecutive
\* unquoted commas with the quotes removed, trimmed.
C25_SplitsOnUnquotedCommas ==
  fnPc = "done" /\ lineRes # <<>> =>
    /\ Len(lineRes) = 1 + Cardinality(UnquotedCommas(lineArg))
    /\ \A n \in 1..Len(lineRes) :
         /\ \A k \in 1..Len(lineRes[n]) : lineRes[n][k] # "\""
         /\ lineRes[n] = Trim(StripQuotes(Between(lineArg, n)))

\* a line with a quoted comma followed by an unquoted comma
C25_Witness ==
  /\ fnPc = "done"
  /\ lineArg = <<"\"", ",", "\"", ",", "a">>
  /\ lineRes = << <<",">>, <<"a">> >>
(***************************************************************************)
(* Claims about the import orchestrator.                                   *)
(***************************************************************************)
\* emails of the leads of a table, lowercased
StoredEmails(table) == {toLowerCase(table[k].email) : k \in 1..Len(table)} \ {<<>>}

\* phones of the leads of a table with the prefix removed
StoredPhones(table) ==
  {Trim(StripPhonePrefix(table[k].phone)) : k \in 1..Len(table)} \ {<<>>}

\* the run fetched the sheet's text
FetchedOk(run, s) ==
  \E k \in 1..Len(run.fetches) : run.fetches[k].sheet = s /\ run.fetches[k].env = "ok"

\* a single-sheet run that went through its row loop to the end
CompletedSingle(run) ==
  /\ run.kind = "single" /\ run.pc = "done"
  /\ run.status \in {"success", "partial", "all_duplicates", "error"}
  /\ Len(run.rows) > 0 /\ run.i > Len(run.rows)

CallsFor(run, email) == {k \in 1..Len(run.calls) : run.calls[k].email = email}

\* C3: in a single-sheet sync and in sync-all, a parsed row whose email
\* equals, ignoring case, the email of a lead in the store when the existing
\* sets were built is counted as a duplicate and no creation call is issued
\* for it.
C3_StoredEmailIsDuplicate ==
  \A r \in Slots :
    LET run == runs[r]
    IN /\ \A k \in 1..Len(run.classes) :
            run.classes[k].email \in StoredEmails(run.storeAtList)
              => run.classes[k].class = "duplicate"
       /\ \A k \in 1..Len(run.calls) :
            run.calls[k].email \notin StoredEmails(run.storeAtList)

\* C5: a single-sheet sync of a sheet whose fetched text has zero non-blank
\* lines parses zero rows, produces a result with status "no_data" and
\* success = failed = duplicates = 0, and raises no error toast.
C5_BlankSheetIsNoData ==
  \A r \in Slots :
    LET run == runs[r]
    IN (/\ run.kind = "single" /\ run.pc = "done"
        /\ FetchedOk(run, run.sheet)
        /\ Len(NonBlankLines(sheetText[run.sheet])) = 0)
       => /\ run.parsed = <<>>
          /\ run.calls = <<>>
          /\ importResults.spreadsheetId = run.sheet
          /\ importResults.status = "no_data"
          /\ importResults.success = 0
          /\ importResults.failed = 0
          /\ importResults.duplicates = 0
          /\ \A t \in run.toasts : t.type # "error"

C5_Witness ==
  \E r \in Slots :
    /\ runs[r].kind = "single" /\ runs[r].pc = "done"
    /\ FetchedOk(runs[r], runs[r].sheet)
    /\ sheetText[runs[r].sheet] = TextBlank
    /\ importResults.status = "no_data"
    /\ runs[r].toasts = {}

\* C6: a single-sheet sync of a sheet with N >= 1 parsed rows, all of whose
\* emails already exist in the store, yields status "all_duplicates" with
\* success = 0, duplicates = N, failed = 0, and issues no creation call.
C6_AllStoredIsAllDuplicates ==
  \A r \in Slots :
    LET run == runs[r]
    IN (/\ CompletedSingle(run)
        /\ \A k \in 1..Len(run.parsed) :
             run.parsed[k].email \in StoredEmails(run.storeAtStart))
       => /\ importResults.status = "all_duplicates"
          /\ importResults.success = 0
          /\ importResults.duplicates = Len(run.parsed)
          /\ importResults.failed = 0
          /\ run.calls = <<>>

\* the data rows of the sheet are complete, carry a phone in cleaned form,
\* and are pairwise distinct in email and in phone
ValidUniqueRows(built) ==
  /\ Len(built) >= 1
  /\ \A k \in 1..Len(built) :
       /\ HasRequired(built[k])
       /\ cleanPhoneNumber(built[k].phone) = built[k].phone
  /\ \A j \in 1..Len(built) : \A k \in 1..Len(built) :
       j < k => /\ built[j].email # built[k].email
                /\ built[j].phone # built[k].phone

SheetEmails(s) ==
  LET built == BuiltRows(sheetText[s])
  IN {built[k].email : k \in {j \in 1..Len(built) : HasRequired(built[j])}}

\* emails shared by the two sheets of a sync-all run and absent from the store
SharedNewEmails(run) ==
  (SheetEmails(run.order[1]) \cap SheetEmails(run.order[2]))
    \ StoredEmails(run.storeAtStart)

HasClass(run, s, email, class) ==
  \E k \in 1..Len(run.classes) :
    /\ run.classes[k].sheet = s
    /\ run.classes[k].email = email
    /\ run.classes[k].class = class

\* C8: in one sync-all run over two active sheets that share an email not
\* present in the store, exactly one creation call is issued for that email:
\* it is a success for the sheet processed first and a duplicate for the
\* sheet processed second.
C8_SharedEmailCreatedOnce ==
  \A r \in Slots :
    LET run == runs[r]
    IN (/\ run.kind = "all" /\ run.pc = "done" /\ run.status = "complete"
        /\ Len(run.order) = 2
        /\ FetchedOk(run, run.order[1]) /\ FetchedOk(run, run.order[2]))
       => \A e \in SharedNewEmails(run) :
            /\ Cardinality(CallsFor(run, e)) = 1
            /\ HasClass(run, run.order[1], e, "success")
            /\ HasClass(run, run.order[2], e, "duplicate")

\* C8 (amended): if the creation call issued for the shared email from the
\* sheet processed first reports success, it is the only creation call for
\* that email in the run, and the row carrying it in the sheet processed
\* second is counted as a duplicate whenever that sheet is fetched and the
\* row is parsed.
C8_SharedEmailCreatedOnceIfSuccess ==
  \A r \in Slots :
    LET run == runs[r]
    IN (run.kind = "all" /\ Len(run.order) = 2)
       => \A e \in SharedNewEmails(run) :
            HasClass(run, run.order[1], e, "success")
              => /\ Cardinality(CallsFor(run, e)) = 1
                 /\ run.calls[CHOOSE k \in CallsFor(run, e) : TRUE].sheet = run.order[1]
                 /\ \A k \in 1..Len(run.classes) :
                      (run.classes[k].sheet = run.order[2] /\ run.classes[k].email = e)
                        => run.classes[k].class = "duplicate"
                 /\ (/\ run.pc = "done"
                     /\ FetchedOk(run, run.order[2])
                     /\ \E k \in 1..Len(parseCSV(sheetText[run.order[2]])) :
                          parseCSV(sheetText[run.order[2]])[k].email = e)
                      => HasClass(run, run.order[2], e, "duplicate")

C8_Witness ==
  \E r \in Slots :
    /\ runs[r].kind = "all" /\ runs[r].pc = "done" /\ Len(runs[r].order) = 2
    /\ <<"b">> \in SharedNewEmails(runs[r])
    /\ HasClass(runs[r], runs[r].order[1], <<"b">>, "success")
    /\ HasClass(runs[r], runs[r].order[2], <<"b">>, "duplicate")
    /\ Cardinality(CallsFor(runs[r], <<"b">>)) = 1

\* C9: every data row of a fetched sheet that lacks a name or an email is
\* counted in the run's failed count and contributes an error message naming
\* the missing-field condition; no such row is dropped without being counted.
C9_IncompleteRowsCounted ==
  \A r \in Slots :
    LET run == runs[r]
        built == BuiltRows(sheetText[run.sheet])
        incomplete == {k \in 1..Len(built) : ~HasRequired(built[k])}
    IN CompletedSingle(run)
       => /\ importResults.failed >= Cardinality(incomplete)
          /\ incomplete # {} =>
               \E k \in 1..Len(importResults.errors) :
                 importResults.errors[k].text = "Missing name or email"

\* C10: across non-overlapping sync runs, a run issues no creation call for a
\* row whose email, or whose non-empty normalized phone, belongs to a lead
\* already in the store when the run starts, also when the list read fails.
C10_NoCallForStoredLead ==
  \A r \in Slots :
    \A k \in 1..Len(runs[r].calls) :
      /\ runs[r].calls[k].email \notin StoredEmails(runs[r].storeAtStart)
      /\ runs[r].calls[k].phone # <<>>
           => runs[r].calls[k].phone \notin StoredPhones(runs[r].storeAtStart)


(***************************************************************************)
(* Claims about the result of a run: status, last_synced, history.         *)
(***************************************************************************)
\* a single-sheet run that has left its row loop by the end of the rows
PastRowsSingle(run) ==
  /\ run.kind = "single" /\ run.pc \in {"save", "done"}
  /\ Len(run.rows) > 0 /\ run.i > Len(run.rows)

\* the status the claim gives for the counts, or Null where it gives none
ClaimedStatus(s, d, f) ==
  CASE s > 0 /\ d = 0 /\ f = 0 -> "success"
    [] s = 0 /\ d > 0 /\ f = 0 -> "all_duplicates"
    [] s > 0 /\ (d > 0 \/ f > 0) -> "partial"
    [] s = 0 /\ f > 0 /\ d = 0 -> "error"
    [] OTHER -> Null

\* C11: for every completed single-sheet run with counts (success s,
\* duplicates d, failed f), the status is "success" when s>0, d=0, f=0;
\* "all_duplicates" when s=0, d>0, f=0; "partial" when s>0 and (d>0 or f>0);
\* "error" when s=0, f>0, d=0.
C11_StatusFollowsCounts ==
  \A r \in Slots :
    LET run == runs[r]
        claimed == ClaimedStatus(run.successCount, run.duplicateCount,
                                 run.failedCount)
    IN (PastRowsSingle(run) /\ claimed # Null)
       => /\ run.status = claimed
          /\ importResults.status = claimed
          /\ importResults.success = run.successCount
          /\ importResults.duplicates = run.duplicateCount
          /\ importResults.failed = run.failedCount

\* a run that mixes a success with a failed row
C11_Witness ==
  \E r \in Slots :
    /\ PastRowsSingle(runs[r])
    /\ runs[r].successCount > 0 /\ runs[r].failedCount > 0
    /\ runs[r].status = "partial"

\* a single-sheet run that passed the URL and is_active tests and has ended
EndedSingle(run) ==
  /\ run.kind = "single" /\ run.pc = "done"
  /\ run.status \notin {"invalid_url", "inactive"}

\* C12: every single-sheet sync run that starts for an active spreadsheet
\* attempts, by the time it ends, to persist last_synced on that
\* spreadsheet's configuration, whatever the run's outcome (success, partial,
\* all_duplicates, no_data, or fetch error).
C12_EveryRunPersistsLastSynced ==
  \A r \in Slots :
    EndedSingle(runs[r])
      => \E k \in 1..Len(runs[r].updates) :
           runs[r].updates[k].sheet = runs[r].sheet

\* the timestamps of a history run from the newest to the oldest
NewestFirst(history) ==
  \A k \in 1..(Len(history) - 1) :
    history[k].timestamp > history[k + 1].timestamp

\* C13: after any sequence of sync runs, the sync history holds at most 10
\* results, ordered newest first: each appended result is placed at the front
\* and the oldest is evicted once there are 10.
C13_HistoryCappedNewestFirst ==
  /\ [](Len(syncHistory) <= HistoryKept + 1 /\ NewestFirst(syncHistory))
  /\ [][syncHistory' # syncHistory
          => /\ Len(syncHistory') >= 1
             /\ syncHistory'[1] = importResults'
             /\ syncHistory'[1].timestamp = clock
             /\ Tail(syncHistory') =
                  IF Len(syncHistory) = HistoryKept + 1
                  THEN SubSeq(syncHistory, 1, HistoryKept)
                  ELSE syncHistory]_vars

\* a full history from which the result of the first importing run, the only
\* one that created leads, has been evicted
C13_Witness ==
  /\ Len(syncHistory) = HistoryKept + 1
  /\ Len(store) > 0
  /\ \A k \in 1..Len(syncHistory) : syncHistory[k].status = "all_duplicates"

\* C14: a single-sheet sync that parses zero rows (the "no data" outcome)
\* appends its result to the sync history, like any other completed run.
C14_NoDataIsInHistory ==
  \A r \in Slots :
    (/\ runs[r].kind = "single" /\ runs[r].pc = "done"
     /\ runs[r].status = "no_data")
      => /\ importResults.status = "no_data"
         /\ \E k \in 1..Len(syncHistory) : syncHistory[k] = importResults

\* the class given to the row for which the k-th creation call was issued
ClassOfCall(run, k) ==
  {run.classes[j].class :
     j \in {i \in 1..Len(run.classes) :
              /\ run.classes[i].sheet = run.calls[k].sheet
              /\ run.classes[i].row = run.calls[k].row}}

\* the creation call failed with a message that names a duplicate
FailedAsDuplicate(call) ==
  /\ call.thrown
  /\ \/ Includes(HttpMessage(call.env), "duplicate")
     \/ Includes(HttpMessage(call.env), "already exists")

\* C15: in both single-sheet sync and sync-all, when a creation call fails
\* with an error message containing "duplicate" or "already exists" (any
\* letter case), the row is counted in duplicates and not in failed.
C15_DuplicateMessageIsDuplicate ==
  \A r \in Slots :
    \A k \in 1..Len(runs[r].calls) :
      (FailedAsDuplicate(runs[r].calls[k]) /\ ClassOfCall(runs[r], k) # {})
        => ClassOfCall(runs[r], k) = {"duplicate"}

RunStatuses == {"success", "all_duplicates", "partial", "error"}

\* C30: status classification is total and deterministic over completed
\* runs: every run with at least one parsed row receives exactly one of
\* "success", "all_duplicates", "partial", "error"; results with the same
\* counts carry the same status; and a run with zero successes, at least one
\* duplicate and at least one failure is classified "error".
C30_StatusTotalMixedIsError ==
  /\ \A r \in Slots :
       LET run == runs[r]
       IN /\ (run.kind = "single" /\ run.pc \in {"save", "done"}
                /\ Len(run.parsed) > 0)
             => run.status \in RunStatuses
          /\ PastRowsSingle(run)
             => /\ importResults.status \in RunStatuses
                /\ (run.successCount = 0 /\ run.duplicateCount > 0
                      /\ run.failedCount > 0)
                   => run.status = "error" /\ importResults.status = "error"
  /\ \A i \in 1..Len(syncHistory) : \A j \in 1..Len(syncHistory) :
       /\ syncHistory[i].status \in RunStatuses
       /\ (/\ syncHistory[i].success = syncHistory[j].success
           /\ syncHistory[i].duplicates = syncHistory[j].duplicates
           /\ syncHistory[i].failed = syncHistory[j].failed)
          => syncHistory[i].status = syncHistory[j].status

\* a run with one duplicate, one failed row and no success
C30_Witness ==
  \E r \in Slots :
    /\ PastRowsSingle(runs[r])
    /\ runs[r].successCount = 0
    /\ runs[r].duplicateCount = 1
    /\ runs[r].failedCount = 1
    /\ runs[r].status = "error"
    /\ Len(syncHistory) > 0 /\ syncHistory[1].status = "error"
    /\ syncHistory[1].duplicates = 1 /\ syncHistory[1].failed = 1

(***************************************************************************)
(* Claims about the auto-sync timers.                                      *)
(***************************************************************************)
\* C16: in every reachable state, under any interleaving of load,
\* edit/toggle responses and timer ticks, at most one live (uncancelled)
\* recurring auto-sync timer exists per spreadsheet id: re-arming a
\* spreadsheet cancels its previous timer before the new one becomes the
\* held handle.
C16_OneLiveTimerPerSheet ==
  \A s \in SheetIds :
    /\ Cardinality(LiveTimers(s)) <= 1
    /\ mounted => LiveTimers(s) \subseteq {syncIntervals[s]}

\* C17: after an edit that sets auto_sync or is_active to false on a
\* spreadsheet has been applied successfully, no live auto-sync timer remains
\* for that spreadsheet id, so no further timer-driven run of it starts; this
\* holds also when the edit was issued while an earlier edit of the same
\* spreadsheet was still awaiting its response.
C17_OffEditLeavesNoTimer ==
  \A s \in SheetIds : applied[s] = "off" => LiveTimers(s) = {}

\* C18: on shutdown (unmount of the integrations page), every auto-sync
\* timer that was armed and not yet cancelled is cancelled, so no timer tick
\* fires afterwards.
C18_UnmountCancelsAll ==
  [][(mounted /\ ~mounted') => \A s \in SheetIds : LiveTimers(s)' = {}]_vars

(***************************************************************************)
(* Claims about the robustness of sync-all and of the creation call.       *)
(***************************************************************************)
\* the run reached spreadsheet s in its loop: it rejected the URL, or it
\* issued the fetch
Attempted(run, s) ==
  \/ /\ convertToCsvUrl(spreadsheets[s].url) = Null
     /\ [type |-> "error", sheet |-> s] \in run.toasts
  \/ \E k \in 1..Len(run.fetches) : run.fetches[k].sheet = s

\* a sync-all run that found active spreadsheets and has ended
EndedAll(run) ==
  /\ run.kind = "all" /\ run.pc = "done"
  /\ run.status # "none_active"

AllAttempted(run) ==
  /\ run.order = [k \in 1..Len(ActiveSpreadsheets(spreadsheets)) |->
                    ActiveSpreadsheets(spreadsheets)[k].id]
  /\ \A k \in 1..Len(run.order) : Attempted(run, run.order[k])

\* the original statement of C19: every sync-all run attempts every active
\* spreadsheet and ends with the importing flag cleared
C19_EveryActiveAttempted ==
  \A r \in Slots :
    EndedAll(runs[r]) => (AllAttempted(runs[r]) /\ ~importing)

\* what is left of a sync-all run: the spreadsheets still queued, then the
\* position within the current one, then the rows still to process
Remaining(run) ==
  CASE run.pc = "alist" -> <<Len(run.queue), 3, 0>>
    [] run.pc = "afetch" -> <<Len(run.queue), 2, 0>>
    [] run.pc = "arows" -> <<Len(run.queue), 1, Len(run.rows) + 1 - run.i>>
    [] run.pc = "asave" -> <<Len(run.queue), 0, 0>>
    [] OTHER -> <<0, 0, 0>>

\* lexicographic order on triples of naturals
Less(a, b) ==
  \/ a[1] < b[1]
  \/ a[1] = b[1] /\ a[2] < b[2]
  \/ a[1] = b[1] /\ a[2] = b[2] /\ a[3] < b[3]

\* C19: in a sync-all run whose read of the existing leads does not reject,
\* every active spreadsheet is attempted: an unresolvable URL, a failed fetch,
\* an empty sheet or an exception while processing one spreadsheet does not
\* prevent any later active spreadsheet from being fetched and processed; a
\* run whose read of the existing leads rejects attempts none; in both cases
\* the run terminates (each of its steps brings it closer to its end: fewer
\* spreadsheets queued, or a later position in the current one, or fewer
\* rows left) and ends with the importing flag cleared.
C19_ActiveAttemptedUnlessListFails ==
  /\ [](\A r \in Slots :
          EndedAll(runs[r])
            => /\ ~importing
               /\ IF runs[r].listed = "network"
                  THEN runs[r].fetches = <<>> /\ runs[r].status = "aborted"
                  ELSE /\ AllAttempted(runs[r])
                       /\ runs[r].queue = <<>>
                       /\ runs[r].status = "complete")
  /\ [][\A r \in Slots :
          (runs[r].kind = "all" /\ runs[r].pc # "done" /\ runs'[r] # runs[r])
            => /\ runs'[r].kind = "all"
               /\ Less(Remaining(runs'[r]), Remaining(runs[r]))]_vars

\* the first spreadsheet could not be fetched or had an unresolvable URL, the
\* second was fetched and its rows were processed
C19_Witness ==
  \E r \in Slots :
    /\ EndedAll(runs[r]) /\ Len(runs[r].order) = 2
    /\ ~FetchedOk(runs[r], runs[r].order[1])
    /\ FetchedOk(runs[r], runs[r].order[2])
    /\ \E k \in 1..Len(runs[r].classes) :
         runs[r].classes[k].sheet = runs[r].order[2]
    /\ ~importing

\* C20: in a single-sheet sync, a row is counted as a success, and its email
\* and phone are added to the existing-email/phone sets, only when its
\* creation call reported success; a creation call that returns a failure
\* flag (success = false with a message, without a transport error) is
\* counted as failed and leaves the sets unchanged.
C20_SuccessOnlyWhenReported ==
  \A r \in Slots :
    runs[r].kind = "single"
      => \A k \in 1..Len(runs[r].calls) :
           LET call == runs[r].calls[k]
           IN (~call.thrown /\ ~call.success /\ ClassOfCall(runs[r], k) # {})
                => /\ ClassOfCall(runs[r], k) = {"failed"}
                   /\ call.email \notin runs[r].existingEmails

(***************************************************************************)
(* Claims about the row loop.                                              *)
(***************************************************************************)
\* the classifications recorded for row k of spreadsheet s
ClassesOf(run, s, k) ==
  {j \in 1..Len(run.classes) :
     run.classes[j].sheet = s /\ run.classes[j].row = k}

\* the run is in, or just past, the row loop of a spreadsheet
InRowLoop(run) == run.pc \in {"rows", "save", "arows", "asave"}

Counted(run) == run.successCount + run.duplicateCount + run.failedCount

\* C21: in every sync run that reaches the row loop, each parsed row is
\* classified exactly once as success, duplicate or failed, whatever the
\* outcome of earlier rows' creation calls; at the end success + duplicates +
\* failed equals the number of parsed rows.
C21_EachRowClassifiedOnce ==
  \A r \in Slots :
    LET run == runs[r]
    IN /\ InRowLoop(run)
          => /\ \A k \in 1..Len(run.rows) :
                  Cardinality(ClassesOf(run, run.sheet, k))
                    = IF k < run.i THEN 1 ELSE 0
             /\ Counted(run) = run.i - 1
             /\ \A j \in 1..Len(run.classes) :
                  run.classes[j].class \in {"success", "duplicate", "failed"}
       /\ run.pc \in {"save", "asave"} => Counted(run) = Len(run.rows)
       /\ PastRowsSingle(run)
          => /\ Counted(run) = Len(run.parsed)
             /\ importResults.success + importResults.duplicates
                  + importResults.failed = Len(run.parsed)
       /\ (run.kind = "all" /\ run.pc = "done" /\ run.status = "complete")
          => /\ run.totalSuccess + run.totalDuplicates + run.totalFailed
                  = Len(run.parsed)
             /\ Len(run.classes) = Len(run.parsed)

\* the creation call of the first row failed and the second row was still
\* classified
C21_Witness ==
  \E r \in Slots :
    /\ runs[r].pc \in {"save", "asave"}
    /\ Len(runs[r].rows) = 2
    /\ \E j \in 1..Len(runs[r].calls) :
         /\ runs[r].calls[j].sheet = runs[r].sheet
         /\ runs[r].calls[j].row = 1
         /\ runs[r].calls[j].thrown
    /\ Cardinality(ClassesOf(runs[r], runs[r].sheet, 2)) = 1
    /\ runs[r].failedCount >= 1

\* the fetches a run made of the export of spreadsheet s
FetchesOf(run, s) == {k \in 1..Len(run.fetches) : run.fetches[k].sheet = s}

\* the creation calls a run issued for rows of spreadsheet s
CallsOfSheet(run, s) == {k \in 1..Len(run.calls) : run.calls[k].sheet = s}

\* the run has taken up spreadsheet s
TakenUp(run, s) ==
  \/ run.kind = "single" /\ run.pc # "idle" /\ run.sheet = s
  \/ run.kind = "all" /\ \E k \in 1..Len(run.order) : run.order[k] = s

\* C23: when a spreadsheet's URL cannot be resolved to a CSV URL, or the CSV
\* fetch returns a non-success response, the run issues no lead creation call
\* for that spreadsheet and does not fetch it again within the same
\* invocation.
C23_FailedFetchNoCallNoRetry ==
  \A r \in Slots : \A s \in SheetIds :
    LET run == runs[r]
    IN TakenUp(run, s)
       => /\ convertToCsvUrl(spreadsheets[s].url) = Null
             => FetchesOf(run, s) = {} /\ CallsOfSheet(run, s) = {}
          /\ (\E k \in FetchesOf(run, s) : run.fetches[k].env # "ok")
             => Cardinality(FetchesOf(run, s)) = 1 /\ CallsOfSheet(run, s) = {}
          /\ Cardinality(FetchesOf(run, s)) <= 1

\* a sync-all run has ended in which the fetch of spreadsheet 1 was refused
\* and spreadsheet 2 was still processed with a creation call
C23_Witness ==
  \E r \in Slots :
    /\ runs[r].kind = "all" /\ runs[r].pc = "done"
    /\ \E k \in FetchesOf(runs[r], 1) : runs[r].fetches[k].env = "http_error"
    /\ CallsOfSheet(runs[r], 1) = {}
    /\ CallsOfSheet(runs[r], 2) # {}

(***************************************************************************)
(* Claims about runs that overlap.                                         *)
(***************************************************************************)
InFlight(run) == run.pc \notin {"idle", "done"}

\* the creation calls a run issued for row k of spreadsheet s
CallsOfRow(run, s, k) ==
  {j \in 1..Len(run.calls) : run.calls[j].sheet = s /\ run.calls[j].row = k}

\* the row the run is at is absent from the sets the run built itself
AbsentFromOwnSets(run) ==
  /\ CleanEmail(run.rows[run.i]) \notin run.existingEmails
  /\ CleanPhone2(run.rows[run.i]) = <<>>
       \/ CleanPhone2(run.rows[run.i]) \notin run.existingPhones

\* C22: no in-flight guard exists: a run is started whatever other runs are
\* in progress, and in its row loop it issues the creation call for a row
\* exactly when the row's email and phone are absent from the sets that run
\* built itself, whatever the store holds by then and whatever a concurrent
\* run of the same spreadsheet has already created; so a timer-driven run and
\* a manual or sync-all run of the same spreadsheet both issue a creation call
\* for the same row of the same sheet snapshot.
C22_RunsDecideOnOwnSets ==
  [][\A r \in Slots :
       (/\ runs[r].pc \in {"rows", "arows"}
        /\ runs[r].i <= Len(runs[r].rows)
        /\ runs'[r].kind = runs[r].kind
        /\ runs'[r].i = runs[r].i + 1)
       => (Len(runs'[r].calls) = Len(runs[r].calls) + 1
             <=> AbsentFromOwnSets(runs[r]))]_vars

\* a manual run and a timer-driven run of spreadsheet 1 are in flight
\* together, both have issued the creation call for row 1 (email a), and the
\* store holds the lead twice
C22_Witness ==
  /\ tickCount = 1 /\ runCount = 2
  /\ \E r1, r2 \in Slots :
       /\ r1 # r2
       /\ InFlight(runs[r1]) /\ InFlight(runs[r2])
       /\ runs[r1].kind = "single" /\ runs[r2].kind = "single"
       /\ runs[r1].sheet = 1 /\ runs[r2].sheet = 1
       /\ runs[r1].rows = runs[r2].rows
       /\ \E j1 \in CallsOfRow(runs[r1], 1, 1), j2 \in CallsOfRow(runs[r2], 1, 1) :
            /\ runs[r1].calls[j1].email = runs[r2].calls[j2].email
            /\ runs[r1].calls[j1].success /\ runs[r2].calls[j2].success
  /\ Cardinality({k \in 1..Len(store) : store[k].email = <<"a">>}) = 2

\* run r leaves the entry of processSpreadsheet towards the fetch in this step
StartsFetching(r) ==
  /\ runs[r].pc \in {"idle", "done"}
  /\ runs'[r].kind = "single" /\ runs'[r].pc = "fetch"

\* the configuration of spreadsheet s is inactive both as persisted and as the
\* page holds it, and no edit of it is awaiting its response
Deactivated(s) ==
  /\ ~serverSheets[s].is_active
  /\ s \in DOMAIN spreadsheets => ~spreadsheets[s].is_active
  /\ \A e \in edits : e.sheet # s

\* C26: no run is started, and so no lead creation call is issued, on behalf
\* of a spreadsheet whose current configuration has is_active = false: no
\* run, manual or timer-driven, goes on to fetch a spreadsheet that has been
\* deactivated.
C26_NoRunOfInactive ==
  [][\A r \in Slots :
       StartsFetching(r) => ~Deactivated(runs'[r].sheet)]_vars

\* C28: the importing flag is true in every state in which at least one sync
\* run (manual, timer-driven or sync-all) is in flight, so the "Sync Now" and
\* "Sync All" controls stay disabled until every running import has finished.
C28_ImportingWhileInFlight ==
  (\E r \in Slots : InFlight(runs[r])) => importing

\* C29: under any interleaving of concurrent create-lead requests and
\* deletions, every lead in the store has a lead_id different from every
\* other stored lead's lead_id.
C29_LeadIdsUnique ==
  \A i \in 1..Len(leadsTable) : \A j \in 1..Len(leadsTable) :
    i # j => leadsTable[i].lead_id # leadsTable[j].lead_id
====
